---------------------------- MODULE Spec2Model ----------------------------
(***************************************************************************)
(* The rebalancing core of the yield optimizer                             *)
(* (src/src/services/yield-optimizer.ts): the Position Store, the Rebalance*)
(* Decision Gate, the Movement Planner and the Rebalance Executor, with    *)
(* the settlement collaborator (BlockchainService) as the environment.     *)
(*                                                                         *)
(* Representation of numbers.  Amounts are bigints and are integers here.  *)
(* JavaScript numbers are held as scaled integers:                         *)
(*   - a position's currentPercentage is held in hundredths of a percent   *)
(*     (the bigint quotient of line 416 before the division by 100);       *)
(*   - a strategy's target percentages are held in thousandths of a        *)
(*     percent, so that Math.round(p * 100) is a real rounding;            *)
(*   - the rebalance need and rebalanceThreshold are fractions held in     *)
(*     units of 1/100000 (0.05 is 5000).                                   *)
(***************************************************************************)
EXTENDS Integers, Sequences, FiniteSets, TLC

VARIABLES
    positions,            \* this.positions: protocol name -> position
    currentStrategy,      \* this.currentStrategy
    pendingTransactions,  \* this.pendingTransactions, in insertion order; a transaction's id is its index
    pc,                   \* where the executeRebalance call stands
    newStrategy,          \* executeRebalance: the argument of the last call
    movements,            \* executeRebalance: const movements
    transactions,         \* executeRebalance: const transactions (ids, in push order)
    idx,                  \* executeRebalance: number of the movement the for loop is at
    settlement,           \* every call made to the settlement collaborator, in submission order
    inflight,             \* the settlement calls submitted and not yet returned (indices of settlement)
    calls,                \* number of calls made so far to the operation a specification bounds
    gate,                 \* the last shouldRebalance call: its inputs and its result
    optimized,            \* the last optimizeAllocation call: its snapshot and the strategy returned
    assessment,           \* the last Risk Analyzer call: its input and the assessment returned
    suspended,            \* the frame of an executeRebalance call that stands at an await while another call runs
    vaultETH,             \* the vault contract: its current staking router and the deposits locked through it
    stake                 \* where the BlockchainService.executeStake call stands, its arguments and what it returned

vars == << positions, currentStrategy, pendingTransactions, pc, newStrategy,
           movements, transactions, idx, settlement, inflight, calls, gate,
           optimized, assessment, suspended, vaultETH, stake >>

-----------------------------------------------------------------------------
(* Bounds and inputs *)

\* Number of initializePositions / executeRebalance calls in one behaviour.
MaxCalls == 2

\* totalStaked values the chain reports for a protocol.
AmountInputs == {0, 30, 70}

\* Values returned by getGasPrice (gwei): under and over the default ceiling.
GasPriceInputs == {45, 55}

\* Values getGasPrice returns while a rebalance is executed.
SubmissionGasPrices == {45}

\* getProtocolData returning null; data is << totalStaked >>.
NoData == << >>
\* executeStake / executeUnstake returning null; a hash is the index, in
\* settlement, of the submission that produced it.
NoHash == 0

\* DataService.getAvailableProtocols: the protocols, in the order returned.
AvailableProtocols == << "lido", "etherfi", "rocketpool", "morpho" >>

ProtocolNames == { AvailableProtocols[i] : i \in 1..Len(AvailableProtocols) }

\* BlockchainService.initializeContracts: the protocols whose router address is
\* configured.  The morpho router is left unconfigured, so getProtocolData
\* returns null for it and it never gets a position.
RouterContracts == { "lido", "etherfi", "rocketpool" }

-----------------------------------------------------------------------------
(* Arithmetic *)

Abs(x) == IF x < 0 THEN -x ELSE x

Min(a, b) == IF a < b THEN a ELSE b

\* bigint division: the quotient truncated toward zero.
BigIntDiv(a, b) ==
    IF b = 0 THEN 0
    ELSE LET q == Abs(a) \div Abs(b)
         IN  IF (a < 0) = (b < 0) THEN q ELSE -q

\* Math.round(targetPercentage * 100): basis points, halves rounded up.
RoundToBasisPoints(targetPercentage) == (targetPercentage + 5) \div 10

RECURSIVE SumSeq(_)
SumSeq(s) == IF s = << >> THEN 0 ELSE Head(s) + SumSeq(Tail(s))

RECURSIVE SumOver(_, _)
SumOver(f, S) ==
    IF S = {} THEN 0
    ELSE LET x == CHOOSE y \in S : TRUE
         IN  f[x] + SumOver(f, S \ {x})

RemoveAt(s, j) == [ i \in 1..(Len(s) - 1) |-> IF i < j THEN s[i] ELSE s[i + 1] ]

-----------------------------------------------------------------------------
(* Strategies *)

\* An allocation map is the sequence of its entries << protocol, percentage >>
\* in insertion order (a JavaScript Map iterates in insertion order).
Entry(p, pct) == << p, pct >>

Strategy(alloc, risk, threshold, maxGas, tolerance) ==
    [ targetAllocations |-> alloc, riskScore |-> risk,
      rebalanceThreshold |-> threshold, maxGasPrice |-> maxGas,
      riskTolerance |-> tolerance ]

\* The strategy the constructor installs (MAX_GAS_PRICE_GWEI and RISK_TOLERANCE unset).
DefaultStrategy ==
    Strategy(<< Entry("lido", 35000), Entry("rocketpool", 25000),
                Entry("etherfi", 25000), Entry("morpho", 15000) >>,
             3, 5000, 50, "moderate")

\* Allocation maps handed to executeRebalance: sums of 100 in both orders,
\* three protocols with one or two sources, a sum over 100, a protocol
\* without a position, and the empty map.
AllocationInputs ==
    { << >>,
      << Entry("lido", 40000), Entry("rocketpool", 60000) >>,
      << Entry("rocketpool", 60000), Entry("lido", 40000) >>,
      << Entry("lido", 0), Entry("rocketpool", 40000), Entry("etherfi", 60000) >>,
      << Entry("etherfi", 50000), Entry("lido", 0), Entry("rocketpool", 50000) >>,
      << Entry("lido", 60000), Entry("rocketpool", 60000) >>,
      << Entry("morpho", 60000), Entry("lido", 40000) >> }

\* Strategies handed to executeRebalance.
StrategyInputs ==
    { Strategy(a, 3, 5000, 60, "moderate") : a \in AllocationInputs }
    \cup { Strategy(<< >>, 7, 0, 45, "aggressive"),
           Strategy(<< Entry("lido", 40000), Entry("rocketpool", 60000) >>,
                    7, 0, 45, "aggressive"),
           Strategy(<< Entry("etherfi", 50000), Entry("lido", 50000) >>,
                    7, 0, 45, "aggressive") }

AllocationProtocols(alloc) == { alloc[i][1] : i \in 1..Len(alloc) }

AllocationSum(alloc) == SumSeq([ i \in 1..Len(alloc) |-> alloc[i][2] ])

-----------------------------------------------------------------------------
(* Position Store *)

Position(amount, percentage) ==
    [ currentAmount |-> amount, currentPercentage |-> percentage ]

getTotalPortfolioValue(pos) ==
    SumOver([ p \in DOMAIN pos |-> pos[p].currentAmount ], DOMAIN pos)

updatePositionPercentages(pos) ==
    LET totalValue == getTotalPortfolioValue(pos)
    IN  IF totalValue = 0 THEN pos
        ELSE [ p \in DOMAIN pos |->
                 [ pos[p] EXCEPT !.currentPercentage =
                     BigIntDiv(pos[p].currentAmount * 10000, totalValue) ] ]

\* updatePositionAmounts without the recomputation of the percentages (line 406).
updatePositionAmounts_PercentagesStale(pos, fromProtocol, toProtocol, amount) ==
    LET afterFrom ==
            IF fromProtocol \in DOMAIN pos
            THEN [ pos EXCEPT ![fromProtocol].currentAmount = @ - amount ]
            ELSE pos
    IN  IF toProtocol \in DOMAIN afterFrom
        THEN [ afterFrom EXCEPT ![toProtocol].currentAmount = @ + amount ]
        ELSE afterFrom

\* updatePositionAmounts without the credit of the destination (lines 402-404 left out).
updatePositionAmounts_DestinationNotCredited(pos, fromProtocol, toProtocol, amount) ==
    LET afterFrom ==
            IF fromProtocol \in DOMAIN pos
            THEN [ pos EXCEPT ![fromProtocol].currentAmount = @ - amount ]
            ELSE pos
    IN  updatePositionPercentages(afterFrom)

updatePositionAmounts(pos, fromProtocol, toProtocol, amount) ==
    LET afterFrom ==
            IF fromProtocol \in DOMAIN pos
            THEN [ pos EXCEPT ![fromProtocol].currentAmount = @ - amount ]
            ELSE pos
        afterTo ==
            IF toProtocol \in DOMAIN afterFrom
            THEN [ afterFrom EXCEPT ![toProtocol].currentAmount = @ + amount ]
            ELSE afterFrom
    IN  updatePositionPercentages(afterTo)

\* initializePositions without the recomputation of the percentages (line 69
\* left out): every fresh position keeps currentPercentage 0.
initializePositions_PercentagesNotComputed(pos, data) ==
    LET fresh == { p \in ProtocolNames : data[p] # NoData }
    IN  [ p \in (DOMAIN pos) \cup fresh |->
            IF p \in fresh THEN Position(data[p][1], 0) ELSE pos[p] ]

\* initializePositions, given what getProtocolData returns for each protocol:
\* a protocol with data gets a fresh position, one without keeps what it had.
initializePositions(pos, data) ==
    LET fresh == { p \in ProtocolNames : data[p] # NoData }
        set == [ p \in (DOMAIN pos) \cup fresh |->
                   IF p \in fresh THEN Position(data[p][1], 0) ELSE pos[p] ]
    IN  updatePositionPercentages(set)

\* What getProtocolData can return: null without a router contract, else the
\* chain's totalStaked.
ProtocolDataInputs ==
    { d \in [ ProtocolNames -> { << a >> : a \in AmountInputs } \cup {NoData} ] :
        \A p \in ProtocolNames : (d[p] = NoData) <=> (p \notin RouterContracts) }

-----------------------------------------------------------------------------
(* Movement Planner *)

Movement(fromProtocol, toProtocol, amount) ==
    [ from |-> fromProtocol, to |-> toProtocol, amount |-> amount ]

targetAmountOf(totalValue, targetPercentage) ==
    BigIntDiv(totalValue * RoundToBasisPoints(targetPercentage), 10000)

\* Classify entering a surplus in the deficits map as well (the test of line
\* 299 being difference !== 0).
RECURSIVE Classify_SurplusAlsoDeficit(_, _, _, _)
Classify_SurplusAlsoDeficit(alloc, pos, totalValue, wantSurplus) ==
    IF alloc = << >> THEN << >>
    ELSE LET protocol == Head(alloc)[1]
             rest == Classify_SurplusAlsoDeficit(Tail(alloc), pos, totalValue, wantSurplus)
         IN  IF protocol \notin DOMAIN pos THEN rest
             ELSE LET difference == targetAmountOf(totalValue, Head(alloc)[2])
                                      - pos[protocol].currentAmount
                  IN  IF difference # 0 /\ ~wantSurplus
                        THEN << Entry(protocol, Abs(difference)) >> \o rest
                      ELSE IF difference < 0 /\ wantSurplus
                        THEN << Entry(protocol, -difference) >> \o rest
                      ELSE rest

\* Classify taking a protocol without a position as one holding 0 (line 294
\* left out).
RECURSIVE Classify_MissingPositionHoldsZero(_, _, _, _)
Classify_MissingPositionHoldsZero(alloc, pos, totalValue, wantSurplus) ==
    IF alloc = << >> THEN << >>
    ELSE LET protocol == Head(alloc)[1]
             rest == Classify_MissingPositionHoldsZero(Tail(alloc), pos, totalValue,
                                                       wantSurplus)
             difference == targetAmountOf(totalValue, Head(alloc)[2])
                             - (IF protocol \in DOMAIN pos
                                THEN pos[protocol].currentAmount ELSE 0)
         IN  IF difference > 0 /\ ~wantSurplus
               THEN << Entry(protocol, difference) >> \o rest
             ELSE IF difference < 0 /\ wantSurplus
               THEN << Entry(protocol, -difference) >> \o rest
             ELSE rest

\* The first loop of calculateRequiredMovements: the entries of the surpluses
\* map (wantSurplus) or of the deficits map, in insertion order.
RECURSIVE Classify(_, _, _, _)
Classify(alloc, pos, totalValue, wantSurplus) ==
    IF alloc = << >> THEN << >>
    ELSE LET protocol == Head(alloc)[1]
             rest == Classify(Tail(alloc), pos, totalValue, wantSurplus)
         IN  IF protocol \notin DOMAIN pos THEN rest
             ELSE LET difference == targetAmountOf(totalValue, Head(alloc)[2])
                                      - pos[protocol].currentAmount
                  IN  IF difference > 0 /\ ~wantSurplus
                        THEN << Entry(protocol, difference) >> \o rest
                      ELSE IF difference < 0 /\ wantSurplus
                        THEN << Entry(protocol, -difference) >> \o rest
                      ELSE rest

\* MatchDeficits with the deficits map left as it was (lines 322-326 left out).
RECURSIVE MatchDeficits_DeficitNotReduced(_, _, _, _, _)
MatchDeficits_DeficitNotReduced(fromProtocol, remainingSurplus, deficits, j, moves) ==
    IF j > Len(deficits) \/ remainingSurplus = 0
    THEN [ deficits |-> deficits, moves |-> moves ]
    ELSE LET deficitAmount == deficits[j][2]
             moveAmount == IF remainingSurplus < deficitAmount
                           THEN remainingSurplus ELSE deficitAmount
         IN  MatchDeficits_DeficitNotReduced(
                 fromProtocol, remainingSurplus - moveAmount, deficits, j + 1,
                 Append(moves, Movement(fromProtocol, deficits[j][1], moveAmount)))

\* MatchDeficits moving the whole deficit whatever is left of the surplus
\* (moveAmount of line 315 not capped by remainingSurplus).
RECURSIVE MatchDeficits_SurplusNotCapped(_, _, _, _, _)
MatchDeficits_SurplusNotCapped(fromProtocol, remainingSurplus, deficits, j, moves) ==
    IF j > Len(deficits) \/ remainingSurplus <= 0
    THEN [ deficits |-> deficits, moves |-> moves ]
    ELSE MatchDeficits_SurplusNotCapped(
             fromProtocol, remainingSurplus - deficits[j][2], RemoveAt(deficits, j), j,
             Append(moves, Movement(fromProtocol, deficits[j][1], deficits[j][2])))

\* MatchDeficits leaving the inner loop after its first movement.
MatchDeficits_FirstDeficitOnly(fromProtocol, remainingSurplus, deficits, j, moves) ==
    IF j > Len(deficits) \/ remainingSurplus = 0
    THEN [ deficits |-> deficits, moves |-> moves ]
    ELSE LET deficitAmount == deficits[j][2]
             moveAmount == IF remainingSurplus < deficitAmount
                           THEN remainingSurplus ELSE deficitAmount
             pushed == Append(moves, Movement(fromProtocol, deficits[j][1], moveAmount))
         IN  IF deficitAmount - moveAmount = 0
             THEN [ deficits |-> RemoveAt(deficits, j), moves |-> pushed ]
             ELSE [ deficits |-> [ deficits EXCEPT ![j] = Entry(deficits[j][1],
                                                                deficitAmount - moveAmount) ],
                    moves |-> pushed ]

\* The inner loop: one surplus against the deficits map from entry j on.
RECURSIVE MatchDeficits(_, _, _, _, _)
MatchDeficits(fromProtocol, remainingSurplus, deficits, j, moves) ==
    IF j > Len(deficits) \/ remainingSurplus = 0
    THEN [ deficits |-> deficits, moves |-> moves ]
    ELSE LET deficitAmount == deficits[j][2]
             moveAmount == IF remainingSurplus < deficitAmount
                           THEN remainingSurplus ELSE deficitAmount
             pushed == Append(moves, Movement(fromProtocol, deficits[j][1], moveAmount))
         IN  IF deficitAmount - moveAmount = 0
             THEN MatchDeficits(fromProtocol, remainingSurplus - moveAmount,
                                RemoveAt(deficits, j), j, pushed)
             ELSE MatchDeficits(fromProtocol, remainingSurplus - moveAmount,
                                [ deficits EXCEPT ![j] = Entry(deficits[j][1],
                                                               deficitAmount - moveAmount) ],
                                j + 1, pushed)

\* The outer loop: the surpluses in insertion order.
RECURSIVE MatchSurpluses(_, _, _)
MatchSurpluses(surpluses, deficits, moves) ==
    IF surpluses = << >> THEN moves
    ELSE LET r == MatchDeficits(Head(surpluses)[1], Head(surpluses)[2], deficits, 1, moves)
         IN  MatchSurpluses(Tail(surpluses), r.deficits, r.moves)

calculateRequiredMovements(strategy, pos, totalValue) ==
    MatchSurpluses(Classify(strategy.targetAllocations, pos, totalValue, TRUE),
                   Classify(strategy.targetAllocations, pos, totalValue, FALSE),
                   << >>)

-----------------------------------------------------------------------------
(* Rebalance Decision Gate *)

\* totalDifference of calculateRebalanceNeed, in thousandths of a percent; the
\* need is this over 100, as a fraction in units of 1/100000.
RECURSIVE calculateRebalanceNeed(_, _)
calculateRebalanceNeed(alloc, pos) ==
    IF alloc = << >> THEN 0
    ELSE LET protocol == Head(alloc)[1]
             currentPercentage ==
                 IF protocol \in DOMAIN pos
                 THEN pos[protocol].currentPercentage * 10
                 ELSE 0
         IN  Abs(Head(alloc)[2] - currentPercentage)
               + calculateRebalanceNeed(Tail(alloc), pos)

checkGasConditions(current, gasPrice) == gasPrice <= current.maxGasPrice

checkRiskThresholds(current, candidate) ==
    LET maxRiskScore == IF current.riskTolerance = "conservative" THEN 4
                        ELSE IF current.riskTolerance = "aggressive" THEN 8
                        ELSE 6
    IN  candidate.riskScore <= maxRiskScore

\* shouldRebalance with >= for > in line 209.
shouldRebalance_NotStrict(current, pos, candidate, gasPrice) ==
    /\ calculateRebalanceNeed(candidate.targetAllocations, pos) >= current.rebalanceThreshold
    /\ checkGasConditions(current, gasPrice)
    /\ checkRiskThresholds(current, candidate)

\* shouldRebalance(newStrategy), gasPrice being what getGasPrice returns.
shouldRebalance(current, pos, candidate, gasPrice) ==
    /\ calculateRebalanceNeed(candidate.targetAllocations, pos) > current.rebalanceThreshold
    /\ checkGasConditions(current, gasPrice)
    /\ checkRiskThresholds(current, candidate)

-----------------------------------------------------------------------------
(* Rebalance Executor *)

Transaction(id, movement, gasPrice) ==
    [ id |-> id, fromProtocol |-> movement.from, toProtocol |-> movement.to,
      amount |-> movement.amount, gasPrice |-> gasPrice,
      status |-> "pending", txHash |-> NoHash ]

\* A call to the settlement collaborator: tx is the transaction it is made
\* for (0 for none), hash the reference a wait is given, result its outcome.
SettlementCall(op, tx, protocol, amount, hash) ==
    [ op |-> op, tx |-> tx, protocol |-> protocol, amount |-> amount,
      hash |-> hash, result |-> "pending" ]

\* Outcomes of provider.waitForTransaction: a receipt with status 1, a receipt
\* with another status, or the timeout elapsing.
WaitOutcomes == { "confirmed", "reverted", "timeout" }

Idle == pc \in { "idle", "returned" }

\* The transaction and the movement the loop is at.
txId == transactions[Len(transactions)]

movement == movements[idx]

Submit(call) ==
    /\ settlement' = Append(settlement, call)
    /\ inflight' = inflight \cup { Len(settlement) + 1 }

\* The calls outstanding for the executeRebalance call that runs: those in
\* flight but the one a suspended call awaits.
ActiveCalls ==
    inflight \ (IF suspended = << >> THEN {} ELSE { suspended[1].awaiting })

\* The call that is outstanding returns with the given result.
Return(op, result) ==
    \E c \in ActiveCalls :
        /\ settlement[c].op = op
        /\ settlement' = [ settlement EXCEPT ![c].result = result ]
        /\ inflight' = inflight \ {c}

\* The same, the continuation submitting the next call.
ReturnAndSubmit(op, result, call) ==
    \E c \in ActiveCalls :
        /\ settlement[c].op = op
        /\ settlement' = Append([ settlement EXCEPT ![c].result = result ], call)
        /\ inflight' = (inflight \ {c}) \cup { Len(settlement) + 1 }

\* The index of the outstanding call.
Outstanding == CHOOSE c \in ActiveCalls : TRUE

\* The vault contract: the router deposits go through ("" while none is set)
\* and the deposits locked so far.
Vault(router, deposits) == [ currentStakingRouter |-> router, deposits |-> deposits ]

EmptyVault == Vault("", << >>)

\* A BlockchainService.executeStake call: where it stands, its arguments and
\* what it returned (a hash is the index of the deposit).
StakeCall(at, protocolName, amount, returned) ==
    [ pc |-> at, protocolName |-> protocolName, amount |-> amount, returned |-> returned ]

NotStaking == StakeCall("idle", "", 0, NoHash)

Init ==
    /\ positions = << >>
    /\ currentStrategy = DefaultStrategy
    /\ pendingTransactions = << >>
    /\ pc = "idle"
    /\ newStrategy = DefaultStrategy
    /\ movements = << >>
    /\ transactions = << >>
    /\ idx = 0
    /\ settlement = << >>
    /\ inflight = {}
    /\ calls = 0
    /\ gate = << >>
    /\ optimized = << >>
    /\ assessment = << >>
    /\ suspended = << >>
    /\ vaultETH = EmptyVault
    /\ stake = NotStaking

InitializePositions(data) ==
    /\ Idle
    /\ calls < MaxCalls
    /\ calls' = calls + 1
    /\ positions' = initializePositions(positions, data)
    /\ UNCHANGED << currentStrategy, pendingTransactions, pc, newStrategy,
                    movements, transactions, idx, settlement, inflight, gate,
                    optimized, assessment, suspended, vaultETH, stake >>

\* executeRebalance up to its first await: an empty plan returns at once.
ExecuteRebalance(strategy) ==
    LET plan == calculateRequiredMovements(strategy, positions,
                                           getTotalPortfolioValue(positions))
    IN  /\ Idle
        /\ calls < MaxCalls
        /\ calls' = calls + 1
        /\ newStrategy' = strategy
        /\ movements' = plan
        /\ transactions' = << >>
        /\ IF plan = << >>
           THEN /\ idx' = 0
                /\ currentStrategy' = strategy
                /\ pc' = "returned"
                /\ UNCHANGED << settlement, inflight >>
           ELSE /\ idx' = 1
                /\ pc' = "gas"
                /\ Submit(SettlementCall("getGasPrice", 0, "", 0, NoHash))
                /\ UNCHANGED currentStrategy
        /\ UNCHANGED << positions, pendingTransactions, gate,
                        optimized, assessment, suspended, vaultETH, stake >>

\* getGasPrice returns: the transaction record is created and registered.
CreateTransaction(gasPrice) ==
    /\ pc = "gas"
    /\ Return("getGasPrice", "price")
    /\ LET id == Len(pendingTransactions) + 1
       IN  /\ pendingTransactions' =
                 Append(pendingTransactions, Transaction(id, movement, gasPrice))
           /\ transactions' = Append(transactions, id)
    /\ pc' = "created"
    /\ UNCHANGED << positions, currentStrategy, newStrategy, movements, idx, calls, gate,
                    optimized, assessment, suspended, vaultETH, stake >>

\* ExecuteMovement without the write of 'executing' (line 338 left out).
ExecuteMovement_StatusNotSet ==
    /\ pc = "created"
    /\ Submit(SettlementCall("executeUnstake", transactions[Len(transactions)],
                             movements[idx].from, movements[idx].amount, NoHash))
    /\ pc' = "unstake"
    /\ UNCHANGED << positions, currentStrategy, pendingTransactions, newStrategy,
                    movements, transactions, idx, calls, gate,
                    optimized, assessment, suspended, vaultETH, stake >>

\* executeMovement up to its first await.
ExecuteMovement ==
    /\ pc = "created"
    /\ pendingTransactions' = [ pendingTransactions EXCEPT ![txId].status = "executing" ]
    /\ Submit(SettlementCall("executeUnstake", txId, movement.from, movement.amount, NoHash))
    /\ pc' = "unstake"
    /\ UNCHANGED << positions, currentStrategy, newStrategy, movements,
                    transactions, idx, calls, gate, optimized, assessment, suspended,
                    vaultETH, stake >>

\* UnstakeReturns submitting the deposit at once, the unstake hash not awaited.
UnstakeReturns_DepositNotAwaitingWithdrawal(ok) ==
    /\ pc = "unstake"
    /\ IF ok
       THEN /\ ReturnAndSubmit("executeUnstake", "hash",
                   SettlementCall("executeStake", transactions[Len(transactions)],
                                  movements[idx].to, movements[idx].amount, NoHash))
            /\ pc' = "stake"
            /\ UNCHANGED pendingTransactions
       ELSE /\ Return("executeUnstake", "none")
            /\ pendingTransactions' =
                 [ pendingTransactions EXCEPT ![transactions[Len(transactions)]].status = "failed" ]
            /\ pc' = "settled"
    /\ UNCHANGED << positions, currentStrategy, newStrategy, movements,
                    transactions, idx, calls, gate, optimized, assessment, suspended,
                    vaultETH, stake >>

\* UnstakeReturns recording the withdrawal's hash in the transaction.
UnstakeReturns_RecordsWithdrawalHash(ok) ==
    /\ pc = "unstake"
    /\ IF ok
       THEN /\ ReturnAndSubmit("executeUnstake", "hash",
                   SettlementCall("waitForTransaction", transactions[Len(transactions)],
                                  movements[idx].from, 0, CHOOSE c \in ActiveCalls : TRUE))
            /\ pendingTransactions' =
                 [ pendingTransactions EXCEPT ![transactions[Len(transactions)]].txHash =
                                                   CHOOSE c \in ActiveCalls : TRUE ]
            /\ pc' = "waitUnstake"
       ELSE /\ Return("executeUnstake", "none")
            /\ pendingTransactions' =
                 [ pendingTransactions EXCEPT ![transactions[Len(transactions)]].status = "failed" ]
            /\ pc' = "settled"
    /\ UNCHANGED << positions, currentStrategy, newStrategy, movements,
                    transactions, idx, calls, gate, optimized, assessment, suspended,
                    vaultETH, stake >>

\* executeUnstake returns a hash (ok) or null.
UnstakeReturns(ok) ==
    /\ pc = "unstake"
    /\ IF ok
       THEN /\ ReturnAndSubmit("executeUnstake", "hash",
                   SettlementCall("waitForTransaction", txId, movement.from, 0, Outstanding))
            /\ pc' = "waitUnstake"
            /\ UNCHANGED pendingTransactions
       ELSE /\ Return("executeUnstake", "none")
            /\ pendingTransactions' = [ pendingTransactions EXCEPT ![txId].status = "failed" ]
            /\ pc' = "settled"
    /\ UNCHANGED << positions, currentStrategy, newStrategy, movements,
                    transactions, idx, calls, gate, optimized, assessment, suspended,
                    vaultETH, stake >>

\* UnstakeWaitReturns with unstakeSuccess not tested (lines 353-355 left out).
UnstakeWaitReturns_OutcomeIgnored(outcome) ==
    /\ pc = "waitUnstake"
    /\ ReturnAndSubmit("waitForTransaction", outcome,
           SettlementCall("executeStake", transactions[Len(transactions)],
                          movements[idx].to, movements[idx].amount, NoHash))
    /\ pc' = "stake"
    /\ UNCHANGED << positions, currentStrategy, pendingTransactions, newStrategy,
                    movements, transactions, idx, calls, gate,
                    optimized, assessment, suspended, vaultETH, stake >>

\* The wait for the unstake returns.
UnstakeWaitReturns(outcome) ==
    /\ pc = "waitUnstake"
    /\ IF outcome = "confirmed"
       THEN /\ ReturnAndSubmit("waitForTransaction", outcome,
                   SettlementCall("executeStake", txId, movement.to, movement.amount, NoHash))
            /\ pc' = "stake"
            /\ UNCHANGED pendingTransactions
       ELSE /\ Return("waitForTransaction", outcome)
            /\ pendingTransactions' = [ pendingTransactions EXCEPT ![txId].status = "failed" ]
            /\ pc' = "settled"
    /\ UNCHANGED << positions, currentStrategy, newStrategy, movements,
                    transactions, idx, calls, gate, optimized, assessment, suspended,
                    vaultETH, stake >>

\* StakeReturns with the error of line 364 leaving executeRebalance (no catch):
\* the call ends with the strategy replaced and the later movements not run.
StakeReturns_ErrorEndsCall(ok) ==
    /\ pc = "stake"
    /\ IF ok
       THEN /\ ReturnAndSubmit("executeStake", "hash",
                   SettlementCall("waitForTransaction", transactions[Len(transactions)],
                                  movements[idx].to, 0, CHOOSE c \in inflight : TRUE))
            /\ pendingTransactions' =
                 [ pendingTransactions EXCEPT ![transactions[Len(transactions)]].txHash =
                                                   CHOOSE c \in inflight : TRUE ]
            /\ pc' = "waitStake"
            /\ UNCHANGED currentStrategy
       ELSE /\ Return("executeStake", "none")
            /\ pendingTransactions' =
                 [ pendingTransactions EXCEPT ![transactions[Len(transactions)]].status = "failed" ]
            /\ currentStrategy' = newStrategy
            /\ pc' = "returned"
    /\ UNCHANGED << positions, newStrategy, movements, transactions, idx, calls, gate,
                    optimized, assessment, suspended, vaultETH, stake >>

\* StakeReturns with the missing hash not thrown: the movement resolves with
\* the status left as it was.
StakeReturns_FailureNotRecorded(ok) ==
    /\ pc = "stake"
    /\ IF ok
       THEN /\ ReturnAndSubmit("executeStake", "hash",
                   SettlementCall("waitForTransaction", transactions[Len(transactions)],
                                  movements[idx].to, 0, CHOOSE c \in inflight : TRUE))
            /\ pendingTransactions' =
                 [ pendingTransactions EXCEPT ![transactions[Len(transactions)]].txHash =
                                                   CHOOSE c \in inflight : TRUE ]
            /\ pc' = "waitStake"
       ELSE /\ Return("executeStake", "none")
            /\ UNCHANGED pendingTransactions
            /\ pc' = "settled"
    /\ UNCHANGED << positions, currentStrategy, newStrategy, movements,
                    transactions, idx, calls, gate, optimized, assessment, suspended,
                    vaultETH, stake >>

\* executeStake returns a hash (ok) or null.
StakeReturns(ok) ==
    /\ pc = "stake"
    /\ IF ok
       THEN /\ ReturnAndSubmit("executeStake", "hash",
                   SettlementCall("waitForTransaction", txId, movement.to, 0, Outstanding))
            /\ pendingTransactions' = [ pendingTransactions EXCEPT ![txId].txHash = Outstanding ]
            /\ pc' = "waitStake"
       ELSE /\ Return("executeStake", "none")
            /\ pendingTransactions' = [ pendingTransactions EXCEPT ![txId].status = "failed" ]
            /\ pc' = "settled"
    /\ UNCHANGED << positions, currentStrategy, newStrategy, movements,
                    transactions, idx, calls, gate, optimized, assessment, suspended,
                    vaultETH, stake >>

\* StakeWaitReturns submitting the deposit again when the wait timed out.
StakeWaitReturns_RetryOnTimeout(outcome) ==
    /\ pc = "waitStake"
    /\ IF outcome = "timeout"
       THEN /\ ReturnAndSubmit("waitForTransaction", outcome,
                   SettlementCall("executeStake", transactions[Len(transactions)],
                                  movements[idx].to, movements[idx].amount, NoHash))
            /\ pc' = "stake"
            /\ UNCHANGED << pendingTransactions, positions >>
       ELSE /\ Return("waitForTransaction", outcome)
            /\ pc' = "settled"
            /\ IF outcome = "confirmed"
               THEN /\ pendingTransactions' =
                         [ pendingTransactions EXCEPT
                             ![transactions[Len(transactions)]].status = "completed" ]
                    /\ positions' = updatePositionAmounts(positions, movements[idx].from,
                                                          movements[idx].to,
                                                          movements[idx].amount)
               ELSE /\ pendingTransactions' =
                         [ pendingTransactions EXCEPT
                             ![transactions[Len(transactions)]].status = "failed" ]
                    /\ UNCHANGED positions
    /\ UNCHANGED << currentStrategy, newStrategy, movements, transactions, idx, calls, gate,
                    optimized, assessment, suspended, vaultETH, stake >>

\* StakeWaitReturns updating the positions whatever the wait returned.
StakeWaitReturns_UpdatesOnFailure(outcome) ==
    /\ pc = "waitStake"
    /\ Return("waitForTransaction", outcome)
    /\ pendingTransactions' =
         [ pendingTransactions EXCEPT ![transactions[Len(transactions)]].status =
             IF outcome = "confirmed" THEN "completed" ELSE "failed" ]
    /\ positions' = updatePositionAmounts(positions, movements[idx].from,
                                          movements[idx].to, movements[idx].amount)
    /\ pc' = "settled"
    /\ UNCHANGED << currentStrategy, newStrategy, movements, transactions, idx, calls, gate,
                    optimized, assessment, suspended, vaultETH, stake >>

\* The wait for the stake returns.
StakeWaitReturns(outcome) ==
    /\ pc = "waitStake"
    /\ Return("waitForTransaction", outcome)
    /\ IF outcome = "confirmed"
       THEN /\ pendingTransactions' = [ pendingTransactions EXCEPT ![txId].status = "completed" ]
            /\ positions' = updatePositionAmounts(positions, movement.from,
                                                  movement.to, movement.amount)
       ELSE /\ pendingTransactions' = [ pendingTransactions EXCEPT ![txId].status = "failed" ]
            /\ UNCHANGED positions
    /\ pc' = "settled"
    /\ UNCHANGED << currentStrategy, newStrategy, movements, transactions, idx, calls, gate,
                    optimized, assessment, suspended, vaultETH, stake >>

\* executeMovement has resolved and the for loop goes to the next movement.
NextMovement ==
    /\ pc = "settled"
    /\ idx < Len(movements)
    /\ idx' = idx + 1
    /\ pc' = "gas"
    /\ Submit(SettlementCall("getGasPrice", 0, "", 0, NoHash))
    /\ UNCHANGED << positions, currentStrategy, pendingTransactions, newStrategy,
                    movements, transactions, calls, gate,
                    optimized, assessment, suspended, vaultETH, stake >>

\* FinishRebalance replacing the strategy only when no movement failed.
FinishRebalance_OnlyOnSuccess ==
    /\ pc = "settled"
    /\ idx >= Len(movements)
    /\ currentStrategy' =
         IF \E k \in 1..Len(transactions) :
                pendingTransactions[transactions[k]].status = "failed"
         THEN currentStrategy
         ELSE newStrategy
    /\ pc' = "returned"
    /\ UNCHANGED << positions, pendingTransactions, newStrategy, movements,
                    transactions, idx, settlement, inflight, calls, gate,
                    optimized, assessment, suspended, vaultETH, stake >>

\* executeMovement has resolved, the for loop is over: the strategy is
\* replaced and the transactions are returned.
FinishRebalance ==
    /\ pc = "settled"
    /\ idx >= Len(movements)
    /\ currentStrategy' = newStrategy
    /\ pc' = "returned"
    /\ UNCHANGED << positions, pendingTransactions, newStrategy, movements,
                    transactions, idx, settlement, inflight, calls, gate,
                    optimized, assessment, suspended, vaultETH, stake >>

Next ==
    \/ \E data \in ProtocolDataInputs : InitializePositions(data)
    \/ \E strategy \in StrategyInputs : ExecuteRebalance(strategy)
    \/ \E gasPrice \in SubmissionGasPrices : CreateTransaction(gasPrice)
    \/ ExecuteMovement
    \/ \E ok \in BOOLEAN : UnstakeReturns(ok)
    \/ \E outcome \in WaitOutcomes : UnstakeWaitReturns(outcome)
    \/ \E ok \in BOOLEAN : StakeReturns(ok)
    \/ \E outcome \in WaitOutcomes : StakeWaitReturns(outcome)
    \/ NextMovement
    \/ FinishRebalance

Spec == Init /\ [][Next]_vars

-----------------------------------------------------------------------------
(* Vocabulary of the claims *)

Terminal(status) == status \in { "completed", "failed" }

TxIds == DOMAIN pendingTransactions

Calls == DOMAIN settlement

\* The calls of one kind made for a transaction.
CallsFor(op, id) == { c \in Calls : settlement[c].op = op /\ settlement[c].tx = id }

\* The waits on a reference that a call of kind op returned.
WaitsOn(op, id) ==
    { c \in CallsFor("waitForTransaction", id) :
        settlement[settlement[c].hash].op = op }

-----------------------------------------------------------------------------
(* C1 *)

StatusStep(a, b) ==
    \/ a = b /\ ~Terminal(a)
    \/ a = "pending" /\ b = "executing"
    \/ a = "executing" /\ Terminal(b)

\* C1: a transaction is created pending; its status moves only from pending
\* to executing and from executing to completed or failed; a completed or
\* failed transaction is never written again (no field of it changes).
C1_StatusMonotonic ==
    [][ \A i \in DOMAIN pendingTransactions' :
          IF i \in TxIds
          THEN IF Terminal(pendingTransactions[i].status)
               THEN pendingTransactions'[i] = pendingTransactions[i]
               ELSE StatusStep(pendingTransactions[i].status,
                               pendingTransactions'[i].status)
          ELSE pendingTransactions'[i].status = "pending" ]_vars

\* One call has left a completed and a failed transaction behind.
C1_Witness ==
    /\ pc = "returned"
    /\ \E i \in TxIds : pendingTransactions[i].status = "completed"
    /\ \E i \in TxIds : pendingTransactions[i].status = "failed"

-----------------------------------------------------------------------------
(* C2 *)

\* C2: when executeRebalance has returned, the returned list holds one
\* transaction per planned movement, in plan order, each movement was
\* attempted exactly once, and a failed movement did not stop the loop.
C2_EveryMovementAttemptedOnce ==
    pc = "returned" =>
        /\ Len(transactions) = Len(movements)
        /\ \A k \in 1..Len(transactions) :
             /\ transactions[k] \in TxIds
             /\ pendingTransactions[transactions[k]].fromProtocol = movements[k].from
             /\ pendingTransactions[transactions[k]].toProtocol = movements[k].to
             /\ pendingTransactions[transactions[k]].amount = movements[k].amount
             /\ Cardinality(CallsFor("executeUnstake", transactions[k])) = 1
             /\ \A j \in 1..Len(transactions) : j < k => transactions[j] < transactions[k]

\* A plan of two movements whose first failed and whose second completed.
C2_Witness ==
    /\ pc = "returned"
    /\ Len(movements) = 2
    /\ Len(transactions) = 2
    /\ pendingTransactions[transactions[1]].status = "failed"
    /\ pendingTransactions[transactions[2]].status = "completed"

-----------------------------------------------------------------------------
(* C3 *)

WithdrawalFailed(id) ==
    \/ \E c \in CallsFor("executeUnstake", id) : settlement[c].result = "none"
    \/ \E c \in WaitsOn("executeUnstake", id) :
         settlement[c].result \in { "reverted", "timeout" }

\* C3: a transaction whose executeUnstake returned no reference, or whose
\* withdrawal confirmation was negative or timed out, is failed and has no
\* executeStake call.
C3_NoDepositAfterFailedWithdrawal ==
    \A id \in TxIds :
        WithdrawalFailed(id) =>
            /\ pendingTransactions[id].status = "failed"
            /\ CallsFor("executeStake", id) = {}

\* One withdrawal returned no reference and another one timed out.
C3_Witness ==
    /\ \E c \in Calls : settlement[c].op = "executeUnstake" /\ settlement[c].result = "none"
    /\ \E id \in TxIds : \E c \in WaitsOn("executeUnstake", id) :
         settlement[c].result = "timeout"

-----------------------------------------------------------------------------
(* C4 *)

\* C4: at most one settlement call is in flight; an executeStake follows a
\* confirmed wait on the executeUnstake of the same transaction and has its
\* amount; the calls are made in plan order, and while a call is in flight
\* every transaction but the one it is made for is terminal.
C4_SettlementSequential ==
    /\ Cardinality(inflight) <= 1
    /\ \A c \in Calls :
         settlement[c].op = "executeStake" =>
            \E u \in CallsFor("executeUnstake", settlement[c].tx) :
                /\ u < c
                /\ settlement[u].amount = settlement[c].amount
                /\ settlement[u].protocol = pendingTransactions[settlement[c].tx].fromProtocol
                /\ settlement[c].protocol = pendingTransactions[settlement[c].tx].toProtocol
                /\ \E w \in WaitsOn("executeUnstake", settlement[c].tx) :
                     /\ u < w /\ w < c
                     /\ settlement[w].hash = u
                     /\ settlement[w].result = "confirmed"
    /\ \A c, d \in Calls :
         (c < d /\ settlement[c].tx # 0 /\ settlement[d].tx # 0)
            => settlement[c].tx <= settlement[d].tx
    /\ \A c \in inflight : \A id \in TxIds :
         id # settlement[c].tx => Terminal(pendingTransactions[id].status)

\* The deposit of a plan's second movement is in flight.
C4_Witness ==
    /\ Len(transactions) = 2
    /\ \E c \in inflight :
         settlement[c].op = "executeStake" /\ settlement[c].tx = transactions[2]

-----------------------------------------------------------------------------
(* C5 *)

\* The waits on a deposit that are confirmed in this step.
DepositConfirmedNow(id) ==
    \E c \in WaitsOn("executeStake", id) :
        settlement[c].result = "pending" /\ settlement'[c].result = "confirmed"

\* pct is the quotient of amount * 10000 by total, truncated toward zero.
IsPercentageOf(pct, amount, total) ==
    IF amount >= 0
    THEN pct * total <= amount * 10000 /\ amount * 10000 < (pct + 1) * total
    ELSE pct * total >= amount * 10000 /\ amount * 10000 > (pct - 1) * total

\* C5: in the step that confirms a movement's deposit the transaction becomes
\* completed, the source's currentAmount decreases by the movement amount,
\* the destination's increases by it, no other amount changes, and every
\* currentPercentage is that of the new amount in the new total.
C5_CompletionUpdatesPositions ==
    [][ \A id \in TxIds :
          DepositConfirmedNow(id) =>
            LET tx == pendingTransactions[id]
                total == getTotalPortfolioValue(positions')
            IN  /\ pendingTransactions'[id].status = "completed"
                /\ DOMAIN positions' = DOMAIN positions
                /\ tx.fromProtocol # tx.toProtocol
                /\ \A p \in DOMAIN positions :
                     positions'[p].currentAmount =
                        positions[p].currentAmount
                          - (IF p = tx.fromProtocol THEN tx.amount ELSE 0)
                          + (IF p = tx.toProtocol THEN tx.amount ELSE 0)
                /\ total > 0
                /\ \A p \in DOMAIN positions :
                     IsPercentageOf(positions'[p].currentPercentage,
                                    positions'[p].currentAmount, total) ]_vars

\* A completed movement has left its source with a percentage that is not a
\* whole percent.
C5_Witness ==
    \E id \in TxIds :
        /\ pendingTransactions[id].status = "completed"
        /\ positions[pendingTransactions[id].fromProtocol].currentPercentage % 100 # 0

-----------------------------------------------------------------------------
(* C6 *)

AllAttempted ==
    /\ Len(transactions) = Len(movements)
    /\ \A k \in 1..Len(transactions) :
         Terminal(pendingTransactions[transactions[k]].status)

\* C6: a step that leaves executeRebalance in flight leaves the active
\* strategy as it was; a step that leaves it returned leaves the executed
\* strategy active, every movement of the plan having been attempted,
\* whatever the outcomes.
C6_StrategyReplacedAfterAllMovements ==
    [][ /\ pc' \notin { "idle", "returned" } => currentStrategy' = currentStrategy
        /\ pc' = "returned" => (currentStrategy' = newStrategy' /\ AllAttempted')
      ]_vars

\* A call whose movements all failed has returned and has replaced the strategy.
C6_Witness ==
    /\ pc = "returned"
    /\ Len(movements) = 2
    /\ \A k \in 1..Len(transactions) :
         pendingTransactions[transactions[k]].status = "failed"
    /\ currentStrategy = newStrategy
    /\ currentStrategy # DefaultStrategy

-----------------------------------------------------------------------------
(* The Movement Planner on its own: any positions, any strategy *)

\* Number of entries of an allocation map handed to the planner.
MaxPlanEntries == 3

\* Target percentages handed to the planner, 33.335 among them.
PlanPercentageInputs == { 0, 33335, 40000, 60000 }

\* The positions initializePositions leaves.
PlanPositionInputs ==
    { initializePositions(<< >>, d) : d \in ProtocolDataInputs }

\* The allocation maps of at most MaxPlanEntries entries, in every order.
PlanAllocationInputs ==
    UNION { { a \in [ 1..n -> ProtocolNames \X PlanPercentageInputs ] :
                \A i, j \in 1..n : i # j => a[i][1] # a[j][1] } : n \in 0..MaxPlanEntries }

InitPlan ==
    /\ positions \in PlanPositionInputs
    /\ currentStrategy = DefaultStrategy
    /\ pendingTransactions = << >>
    /\ pc = "toPlan"
    /\ newStrategy \in { Strategy(a, 3, 5000, 60, "moderate") : a \in PlanAllocationInputs }
    /\ movements = << >>
    /\ transactions = << >>
    /\ idx = 0
    /\ settlement = << >>
    /\ inflight = {}
    /\ calls = 0
    /\ gate = << >>
    /\ optimized = << >>
    /\ assessment = << >>
    /\ suspended = << >>
    /\ vaultETH = EmptyVault
    /\ stake = NotStaking

\* Lines 241-244 of executeRebalance: the plan for the strategy handed in.
PlanMovements ==
    /\ pc = "toPlan"
    /\ movements' = calculateRequiredMovements(newStrategy, positions,
                                               getTotalPortfolioValue(positions))
    /\ pc' = "planned"
    /\ UNCHANGED << positions, currentStrategy, pendingTransactions, newStrategy,
                    transactions, idx, settlement, inflight, calls, gate,
                    optimized, assessment, suspended, vaultETH, stake >>

NextPlan == PlanMovements

SpecPlan == InitPlan /\ [][NextPlan]_vars

-----------------------------------------------------------------------------
(* C7 *)

\* What the strategy's protocols that have a position hold over their target
\* (sign 1) or under it (sign -1), summed.
RECURSIVE TotalOff(_, _, _, _)
TotalOff(alloc, pos, totalValue, sign) ==
    IF alloc = << >> THEN 0
    ELSE LET p == Head(alloc)[1]
             off == IF p \in DOMAIN pos
                    THEN sign * (pos[p].currentAmount
                                   - targetAmountOf(totalValue, Head(alloc)[2]))
                    ELSE 0
         IN  (IF off > 0 THEN off ELSE 0) + TotalOff(Tail(alloc), pos, totalValue, sign)

\* C7: the amounts of a plan sum to the smaller of the total surplus and the
\* total deficit of the strategy's protocols, and no movement has amount 0.
C7_MovementConservation ==
    pc = "planned" =>
        LET totalValue == getTotalPortfolioValue(positions)
            surplus == TotalOff(newStrategy.targetAllocations, positions, totalValue, 1)
            deficit == TotalOff(newStrategy.targetAllocations, positions, totalValue, -1)
        IN  /\ SumSeq([ k \in 1..Len(movements) |-> movements[k].amount ])
                 = Min(surplus, deficit)
            /\ \A k \in 1..Len(movements) : movements[k].amount > 0

\* Total 100, target 40/60, current 70/30: one movement of 30.
C7_Witness ==
    /\ pc = "planned"
    /\ getTotalPortfolioValue(positions) = 100
    /\ newStrategy.targetAllocations =
         << Entry("lido", 40000), Entry("rocketpool", 60000) >>
    /\ "lido" \in DOMAIN positions /\ positions["lido"].currentAmount = 70
    /\ "rocketpool" \in DOMAIN positions /\ positions["rocketpool"].currentAmount = 30
    /\ movements = << Movement("lido", "rocketpool", 30) >>

-----------------------------------------------------------------------------
(* C8 *)

\* The target allocations sum to more than 100, or a protocol has no position.
InvalidStrategy(strategy, pos) ==
    \/ AllocationSum(strategy.targetAllocations) > 100000
    \/ \E p \in AllocationProtocols(strategy.targetAllocations) : p \notin DOMAIN pos

\* C8: a call of executeRebalance with an invalid strategy generates no
\* movement, submits nothing to settlement and leaves the positions and the
\* active strategy as they were.
C8_InvalidStrategyRejected ==
    [][ \A strategy \in StrategyInputs :
          (InvalidStrategy(strategy, positions) /\ ExecuteRebalance(strategy)) =>
             /\ movements' = << >>
             /\ settlement' = settlement
             /\ positions' = positions
             /\ currentStrategy' = currentStrategy ]_vars

-----------------------------------------------------------------------------
(* The Decision Gate on its own: any candidate against any active strategy *)

\* Candidates handed to shouldRebalance.
CandidateInputs ==
    { Strategy(a, r, t, g, tol) :
        a \in AllocationInputs \cup { << Entry("lido", 50000), Entry("rocketpool", 50000) >> },
        r \in { 3, 6, 7 }, t \in { 0, 5000, 40000 }, g \in { 40, 50, 60 },
        tol \in { "conservative", "moderate", "aggressive" } }

InitGate ==
    /\ positions \in { << >> } \cup { initializePositions(<< >>, d) : d \in ProtocolDataInputs }
    /\ currentStrategy \in { DefaultStrategy } \cup
                           { s \in StrategyInputs : s.targetAllocations = << >> }
    /\ pendingTransactions = << >>
    /\ pc = "idle"
    /\ newStrategy = currentStrategy
    /\ movements = << >>
    /\ transactions = << >>
    /\ idx = 0
    /\ settlement = << >>
    /\ inflight = {}
    /\ calls = MaxCalls - 1
    /\ gate = << >>
    /\ optimized = << >>
    /\ assessment = << >>
    /\ suspended = << >>
    /\ vaultETH = EmptyVault
    /\ stake = NotStaking

\* shouldRebalance(candidate), getGasPrice returning gasPrice.
ShouldRebalance(candidate, gasPrice) ==
    /\ Idle
    /\ calls < MaxCalls
    /\ calls' = calls + 1
    /\ gate' = << [ strategy |-> candidate, gasPrice |-> gasPrice,
                    result |-> shouldRebalance(currentStrategy, positions,
                                               candidate, gasPrice) ] >>
    /\ UNCHANGED << positions, currentStrategy, pendingTransactions, pc, newStrategy,
                    movements, transactions, idx, settlement, inflight,
                    optimized, assessment, suspended, vaultETH, stake >>

NextGate ==
    /\ calls < MaxCalls
    /\ \E candidate \in CandidateInputs, gasPrice \in GasPriceInputs :
         ShouldRebalance(candidate, gasPrice)

SpecGate == InitGate /\ [][NextGate]_vars

-----------------------------------------------------------------------------
(* C9 *)

RiskCap(tolerance) ==
    IF tolerance = "conservative" THEN 4
    ELSE IF tolerance = "aggressive" THEN 8
    ELSE 6

\* C9: shouldRebalance(strategy) returns true exactly when the need over the
\* candidate's protocols exceeds the candidate's rebalanceThreshold, the live
\* fee price is at most the candidate's maxGasPrice and the candidate's
\* riskScore is at most the cap of its risk tolerance.
C9_GateUsesCandidate ==
    gate # << >> =>
        LET strategy == gate[1].strategy
        IN  gate[1].result <=>
              /\ calculateRebalanceNeed(strategy.targetAllocations, positions)
                    > strategy.rebalanceThreshold
              /\ gate[1].gasPrice <= strategy.maxGasPrice
              /\ strategy.riskScore <= RiskCap(strategy.riskTolerance)

-----------------------------------------------------------------------------
(* C10 *)

\* C10 as stated: in every state between calls, shouldRebalance of the active
\* strategy returns false, whatever the fee price.
C10_ActiveStrategyNeverTriggers ==
    Idle => \A gasPrice \in GasPriceInputs :
                ~shouldRebalance(currentStrategy, positions, currentStrategy, gasPrice)

\* Every protocol of the allocation map has a position whose current
\* percentage is its target (or has none and a target of 0).
OnTarget(alloc) ==
    \A i \in 1..Len(alloc) :
        IF alloc[i][1] \in DOMAIN positions
        THEN positions[alloc[i][1]].currentPercentage * 10 = alloc[i][2]
        ELSE alloc[i][2] = 0

\* C10 as amended: shouldRebalance of the active strategy returns false in
\* every state in which each protocol of the active strategy is at its target
\* percentage and the threshold is not negative.
C10_ActiveStrategyOnTargetNeverTriggers ==
    (OnTarget(currentStrategy.targetAllocations) /\ currentStrategy.rebalanceThreshold >= 0)
        => \A gasPrice \in GasPriceInputs :
              ~shouldRebalance(currentStrategy, positions, currentStrategy, gasPrice)

\* A rebalance has completed and left the positions on the targets of the
\* strategy it installed, whose threshold is 0 and whose fee ceiling is met.
C10_Witness ==
    /\ pc = "returned"
    /\ currentStrategy.targetAllocations # << >>
    /\ OnTarget(currentStrategy.targetAllocations)
    /\ currentStrategy.rebalanceThreshold = 0
    /\ \E gasPrice \in GasPriceInputs : checkGasConditions(currentStrategy, gasPrice)
    /\ checkRiskThresholds(currentStrategy, currentStrategy)
    /\ \E id \in TxIds : pendingTransactions[id].status = "completed"

-----------------------------------------------------------------------------
(* Allocation Optimizer                                                    *)
(*                                                                         *)
(* Representation of numbers.  A yield (APR) is a whole percent and a risk *)
(* a whole score.  A risk-adjusted return is held in hundredths of a       *)
(* percent, a risk multiplier in hundredths, a performance multiplier in   *)
(* ten-thousandths, and an allocation of the optimizer in millionths of a  *)
(* percent (AllocationUnit to the percent); it is << a >>, or << >> when   *)
(* it is NaN.  A quotient that JavaScript computes in floating point is    *)
(* held as the pair of its numerator and its denominator; the denominator  *)
(* 0 stands for NaN (0 / 0).                                               *)

\* One percent, in the unit of the optimizer's allocations.
AllocationUnit == 1000000

Ratio(num, den) == [ num |-> num, den |-> den ]

IsNaN(r) == r.den = 0

Max(a, b) == IF a > b THEN a ELSE b

\* A snapshot: protocolAPRs is the sequence of the map's entries in insertion
\* order, protocolRisks a function on the protocols that have an entry.
MarketData(gasPrice, aprs, risks) ==
    [ gasPrice |-> gasPrice, protocolAPRs |-> aprs, protocolRisks |-> risks ]

\* marketData.protocolRisks.get(protocolName) || 0
RiskOrZero(marketData, protocolName) ==
    IF protocolName \in DOMAIN marketData.protocolRisks
    THEN marketData.protocolRisks[protocolName]
    ELSE 0

\* The first loop of optimizeAllocation: protocol -> apr * (1 - risk / 100),
\* one entry per entry of protocolAPRs.
riskAdjustedReturns(marketData) ==
    [ i \in 1..Len(marketData.protocolAPRs) |->
        Entry(marketData.protocolAPRs[i][1],
              marketData.protocolAPRs[i][2]
                * (100 - RiskOrZero(marketData, marketData.protocolAPRs[i][1]))) ]

\* Array.from(entries).sort(([,a], [,b]) => b - a): descending by return, the
\* sort being stable.
RECURSIVE sortedProtocols(_)
sortedProtocols(entries) ==
    IF entries = << >> THEN << >>
    ELSE LET n == Len(entries)
             front == sortedProtocols(SubSeq(entries, 1, n - 1))
             k == Cardinality({ i \in 1..Len(front) : front[i][2] >= entries[n][2] })
         IN  SubSeq(front, 1, k) \o << entries[n] >> \o SubSeq(front, k + 1, Len(front))

getBaseAllocation(protocolName) ==
    IF protocolName = "lido" THEN 30
    ELSE IF protocolName = "rocketpool" THEN 25
    ELSE IF protocolName = "etherfi" THEN 25
    ELSE IF protocolName = "morpho" THEN 20
    ELSE 15

\* In hundredths.
getRiskMultiplier(tolerance, riskScore) ==
    IF tolerance = "conservative" THEN Max(50, 100 - 2 * riskScore)
    ELSE IF tolerance = "aggressive" THEN Min(150, 100 + riskScore)
    ELSE Max(70, 100 - riskScore)

\* Math.tanh((return_ - 7.0) / 5) in thousandths, to the nearest thousandth,
\* for the returns that the snapshots handed in give.
TanhOfExcess(return_) ==
    CASE return_ = 0 -> -885
      [] return_ = 900 -> 380
      [] return_ = 990 -> 523
      [] return_ = 1000 -> 537
      [] return_ = 1800 -> 976
      [] return_ = 1980 -> 988
      [] return_ = 2000 -> 989

\* 1 + tanh(excess / 5) * 0.3, in ten-thousandths.
getPerformanceMultiplier(return_) == 10000 + 3 * TanhOfExcess(return_)

\* The loop of calculateOptimalAllocations over the sorted protocols.
RECURSIVE AllocateSorted(_, _, _, _)
AllocateSorted(tolerance, sorted, marketData, remainingAllocation) ==
    IF sorted = << >> THEN << >>
    ELSE LET protocolName == Head(sorted)[1]
             computed == getBaseAllocation(protocolName)
                           * getRiskMultiplier(tolerance, RiskOrZero(marketData, protocolName))
                           * getPerformanceMultiplier(Head(sorted)[2])
             allocation == Min(computed, remainingAllocation)
         IN  << Entry(protocolName, << allocation >>) >>
               \o AllocateSorted(tolerance, Tail(sorted), marketData,
                                 remainingAllocation - allocation)

calculateOptimalAllocations(tolerance, returns, marketData) ==
    AllocateSorted(tolerance, sortedProtocols(returns), marketData, 100 * AllocationUnit)

\* protocolAPRs.get(protocol) || 0
AprOrZero(aprs, protocol) ==
    LET at == { i \in 1..Len(aprs) : aprs[i][1] = protocol }
    IN  IF at = {} THEN 0 ELSE aprs[CHOOSE i \in at : TRUE][2]

\* calculateExpectedAPR dividing by the number of allocations (0 / 0 for none),
\* as calculateOverallRisk does; 0 stands for a number and -1 for NaN.
calculateExpectedAPR_AveragedOverEntries(allocations, protocolAPRs) ==
    IF allocations = << >> THEN -1
    ELSE SumSeq([ i \in 1..Len(allocations) |->
                    allocations[i][2][1] * AprOrZero(protocolAPRs, allocations[i][1]) ])
           \div Len(allocations)

\* The sum of (allocation / 100) * apr, in hundredths of the allocation unit.
calculateExpectedAPR(allocations, protocolAPRs) ==
    SumSeq([ i \in 1..Len(allocations) |->
               allocations[i][2][1] * AprOrZero(protocolAPRs, allocations[i][1]) ])

\* totalRisk / protocolRisks.size
calculateOverallRisk(protocolRisks) ==
    Ratio(SumOver(protocolRisks, DOMAIN protocolRisks), Cardinality(DOMAIN protocolRisks))

\* adjustGasThreshold with <= for < in line 193 and >= for > in line 195.
adjustGasThreshold_BoundsInclusive(currentGasPrice) ==
    LET baseThreshold == 50
    IN  IF 2 * currentGasPrice <= baseThreshold THEN (baseThreshold * 12) \div 10
        ELSE IF 2 * currentGasPrice >= 3 * baseThreshold THEN (baseThreshold * 8) \div 10
        ELSE baseThreshold

\* MAX_GAS_PRICE_GWEI unset: the base threshold is 50.
adjustGasThreshold(currentGasPrice) ==
    LET baseThreshold == 50
    IN  IF 2 * currentGasPrice < baseThreshold THEN (baseThreshold * 12) \div 10
        ELSE IF 2 * currentGasPrice > 3 * baseThreshold THEN (baseThreshold * 8) \div 10
        ELSE baseThreshold

\* The strategy optimizeAllocation returns (src/src/services/yield-optimizer.ts).
optimizeAllocation(current, marketData) ==
    LET newAllocations ==
            calculateOptimalAllocations(current.riskTolerance,
                                        riskAdjustedReturns(marketData), marketData)
    IN  [ targetAllocations |-> newAllocations,
          expectedAPR |-> calculateExpectedAPR(newAllocations, marketData.protocolAPRs),
          riskScore |-> calculateOverallRisk(marketData.protocolRisks),
          rebalanceThreshold |-> current.rebalanceThreshold,
          maxGasPrice |-> adjustGasThreshold(marketData.gasPrice),
          riskTolerance |-> current.riskTolerance ]

-----------------------------------------------------------------------------
(* The optimizeAllocation of src/unnamed/part_002, which weights by APR    *)
(* and caps by getMaxAllocation.  Its allocations are rounded to two       *)
(* decimals.                                                               *)

getMaxAllocation(protocol) ==
    IF protocol = "lido" THEN 40
    ELSE IF protocol = "etherfi" THEN 30
    ELSE IF protocol = "rocketpool" THEN 30
    ELSE IF protocol = "morpho" THEN 20
    ELSE 25

\* The loop of lines 96-110; the percentages are numerators over totalWeight.
\* With totalWeight 0 every quotient apr / totalWeight is 0 / 0.
RECURSIVE AllocateByAPR(_, _, _)
AllocateByAPR(protocolData, totalWeight, remainingPercentage) ==
    IF protocolData = << >> THEN << >>
    ELSE IF totalWeight = 0
    THEN << Entry(Head(protocolData)[1], << >>) >>
           \o AllocateByAPR(Tail(protocolData), totalWeight, remainingPercentage)
    ELSE IF remainingPercentage <= 0 THEN << >>
    ELSE LET protocol == Head(protocolData)[1]
             capped == Min(100 * Head(protocolData)[2],
                           getMaxAllocation(protocol) * totalWeight)
             allocation == Min(capped, remainingPercentage)
             \* Math.round(allocation * 100) / 100
             rounded == (200 * allocation + totalWeight) \div (2 * totalWeight)
         IN  << Entry(protocol, << rounded * (AllocationUnit \div 100) >>) >>
               \o AllocateByAPR(Tail(protocolData), totalWeight,
                                remainingPercentage - allocation)

\* The sum of the allocations that are numbers, and whether all of them are.
AllNumbers(allocations) == \A i \in 1..Len(allocations) : allocations[i][2] # << >>

TotalAllocated(allocations) ==
    SumSeq([ i \in 1..Len(allocations) |->
               IF allocations[i][2] = << >> THEN 0 ELSE allocations[i][2][1] ])

\* calculateExpectedAPR of part_002: totalWeight > 0 ? weightedAPR / totalWeight * 100 : 0
calculateExpectedAPRByWeight(allocations, aprs) ==
    IF AllNumbers(allocations) /\ TotalAllocated(allocations) > 0
    THEN Ratio(SumSeq([ i \in 1..Len(allocations) |->
                          allocations[i][2][1] * AprOrZero(aprs, allocations[i][1]) ]),
               TotalAllocated(allocations))
    ELSE Ratio(0, 1)

\* calculateRiskScore of part_002: risks.get(protocol) || 1
calculateRiskScore(allocations, risks) ==
    IF AllNumbers(allocations) /\ TotalAllocated(allocations) > 0
    THEN Ratio(SumSeq([ i \in 1..Len(allocations) |->
                          allocations[i][2][1]
                            * (IF allocations[i][1] \in DOMAIN risks
                                  /\ risks[allocations[i][1]] # 0
                               THEN risks[allocations[i][1]] ELSE 1) ]),
               TotalAllocated(allocations))
    ELSE Ratio(1, 1)

\* The strategy the optimizeAllocation of part_002 returns; rebalanceThreshold
\* is 2.0 in the unit of the Decision Gate.
optimizeAllocationByAPR(current, marketData) ==
    LET protocolData == marketData.protocolAPRs
        totalWeight == SumSeq([ i \in 1..Len(protocolData) |-> protocolData[i][2] ])
        targetAllocations == AllocateByAPR(protocolData, totalWeight, 100 * totalWeight)
    IN  [ targetAllocations |-> targetAllocations,
          expectedAPR |-> calculateExpectedAPRByWeight(targetAllocations,
                                                       marketData.protocolAPRs),
          riskScore |-> calculateRiskScore(targetAllocations, marketData.protocolRisks),
          rebalanceThreshold |-> 200000,
          maxGasPrice |-> 50,
          riskTolerance |-> current.riskTolerance ]

-----------------------------------------------------------------------------
(* The Allocation Optimizer on its own: any snapshot, any risk tolerance *)

\* Number of entries of a snapshot's yield map.
MaxSnapshotEntries == 3

\* Yields (percent) and risk scores of a snapshot.
YieldInputs == { 0, 20 }

RiskInputs == { 1, 10 }

SnapshotGasPrices == { 45 }

RiskTolerances == { "conservative", "moderate", "aggressive" }

\* The yield maps of at most MaxSnapshotEntries entries, in every order, with
\* every risk map over the protocols: a protocol can have an entry in both
\* maps, in one of them or in none.
MarketDataInputs ==
    { MarketData(g, a, r) :
        g \in SnapshotGasPrices,
        a \in UNION { { y \in [ 1..n -> ProtocolNames \X YieldInputs ] :
                          \A i, j \in 1..n : i # j => y[i][1] # y[j][1] }
                      : n \in 0..MaxSnapshotEntries },
        r \in UNION { [ D -> RiskInputs ] : D \in SUBSET ProtocolNames } }

\* optimizeAllocation(marketData) of src/src/services/yield-optimizer.ts.
OptimizeAllocation(marketData) ==
    /\ Idle
    /\ calls < MaxCalls
    /\ calls' = calls + 1
    /\ optimized' = << [ marketData |-> marketData, byAPR |-> FALSE,
                         strategy |-> optimizeAllocation(currentStrategy, marketData) ] >>
    /\ UNCHANGED << positions, currentStrategy, pendingTransactions, pc, newStrategy,
                    movements, transactions, idx, settlement, inflight, gate,
                    assessment, suspended, vaultETH, stake >>

\* optimizeAllocation(marketData) of src/unnamed/part_002.
OptimizeAllocationByAPR(marketData) ==
    /\ Idle
    /\ calls < MaxCalls
    /\ calls' = calls + 1
    /\ optimized' = << [ marketData |-> marketData, byAPR |-> TRUE,
                         strategy |-> optimizeAllocationByAPR(currentStrategy, marketData) ] >>
    /\ UNCHANGED << positions, currentStrategy, pendingTransactions, pc, newStrategy,
                    movements, transactions, idx, settlement, inflight, gate,
                    assessment, suspended, vaultETH, stake >>

\* The optimizer is constructed with RISK_TOLERANCE set to any of the three
\* tolerances; the call is the last of the behaviour.
InitOptimize ==
    /\ positions = << >>
    /\ currentStrategy \in { [ DefaultStrategy EXCEPT !.riskTolerance = t ] :
                               t \in RiskTolerances }
    /\ pendingTransactions = << >>
    /\ pc = "idle"
    /\ newStrategy = currentStrategy
    /\ movements = << >>
    /\ transactions = << >>
    /\ idx = 0
    /\ settlement = << >>
    /\ inflight = {}
    /\ calls = MaxCalls - 1
    /\ gate = << >>
    /\ optimized = << >>
    /\ assessment = << >>
    /\ suspended = << >>
    /\ vaultETH = EmptyVault
    /\ stake = NotStaking

NextOptimize ==
    /\ calls < MaxCalls
    /\ \E marketData \in MarketDataInputs :
         \/ OptimizeAllocation(marketData)
         \/ OptimizeAllocationByAPR(marketData)

SpecOptimize == InitOptimize /\ [][NextOptimize]_vars

-----------------------------------------------------------------------------
(* C11 *)

\* The target allocations are numbers, none negative, that sum to at most 100.
AllocationsWithinHundred(allocations) ==
    /\ \A i \in 1..Len(allocations) :
         allocations[i][2] # << >> /\ allocations[i][2][1] >= 0
    /\ TotalAllocated(allocations) <= 100 * AllocationUnit

\* C11: every strategy optimizeAllocation returns, for every snapshot and
\* every risk tolerance, has target allocations that are each at least 0 and
\* that sum to at most 100.
C11_AllocationsWithinHundred ==
    optimized # << >> =>
        AllocationsWithinHundred(optimized[1].strategy.targetAllocations)

-----
(* C12 *)

\* DataService.getAvailableProtocols: the maxAllocation of a protocol (percent).
maxAllocation(protocol) ==
    IF protocol = "lido" THEN 40
    ELSE IF protocol = "etherfi" THEN 30
    ELSE IF protocol = "rocketpool" THEN 35
    ELSE 25

\* C12: in every strategy optimizeAllocation returns, no protocol's
\* allocation exceeds that protocol's maximum-allocation cap.
C12_AllocationWithinCap ==
    optimized # << >> =>
        LET allocations == optimized[1].strategy.targetAllocations
        IN  \A i \in 1..Len(allocations) :
              \/ allocations[i][2] = << >>
              \/ allocations[i][2][1] <= maxAllocation(allocations[i][1]) * AllocationUnit

-----------------------------------------------------------------------------
(* C13 *)

TimedOut(id) ==
    \E c \in CallsFor("waitForTransaction", id) : settlement[c].result = "timeout"

NoReference(id) ==
    \E c \in CallsFor("executeUnstake", id) \cup CallsFor("executeStake", id) :
        settlement[c].result = "none"

\* What a transaction record tells of the outcome: its status and whether it
\* carries a settlement reference (the other fields are set at creation).
OutcomeFields(id) ==
    << pendingTransactions[id].status, pendingTransactions[id].txHash # NoHash >>

\* C13: a transaction whose confirmation wait timed out is failed, and its
\* record differs in the outcome fields from the record of every transaction
\* that failed because settlement returned no reference.
C13_TimeoutDistinguishable ==
    \A i \in TxIds :
        TimedOut(i) =>
            /\ pendingTransactions[i].status = "failed"
            /\ \A j \in TxIds : NoReference(j) => OutcomeFields(i) # OutcomeFields(j)

-----------------------------------------------------------------------------
(* C14 *)

\* The settlement calls that ended in a failure of the movement.
FailedCalls(id) ==
    { c \in CallsFor("executeUnstake", id) \cup CallsFor("executeStake", id) :
        settlement[c].result = "none" }
    \cup { c \in CallsFor("waitForTransaction", id) :
             settlement[c].result \in { "reverted", "timeout" } }

\* C14: for each transaction there is at most one executeUnstake, at most one
\* executeStake and at most one wait on each reference; after a call that
\* returned no reference, a negative confirmation or a timeout the
\* transaction is failed and no further call is made for it.
C14_NoResubmission ==
    \A id \in TxIds :
        /\ Cardinality(CallsFor("executeUnstake", id)) <= 1
        /\ Cardinality(CallsFor("executeStake", id)) <= 1
        /\ Cardinality(WaitsOn("executeUnstake", id)) <= 1
        /\ Cardinality(WaitsOn("executeStake", id)) <= 1
        /\ \A c \in FailedCalls(id) :
             /\ pendingTransactions[id].status = "failed"
             /\ \A d \in Calls : settlement[d].tx = id => d <= c

\* A deposit wait timed out after a confirmed withdrawal, and the call went
\* on to the next movement.
C14_Witness ==
    \E id \in TxIds :
        /\ \E c \in WaitsOn("executeStake", id) : settlement[c].result = "timeout"
        /\ \E d \in Calls : settlement[d].tx > id

-----------------------------------------------------------------------------
(* Termination: every settlement call returns *)

\* A continuation of the executeRebalance call: the settlement call awaited
\* returns and the code runs to its next await or to its return.
Continue ==
    \/ \E gasPrice \in SubmissionGasPrices : CreateTransaction(gasPrice)
    \/ ExecuteMovement
    \/ \E ok \in BOOLEAN : UnstakeReturns(ok)
    \/ \E outcome \in WaitOutcomes : UnstakeWaitReturns(outcome)
    \/ \E ok \in BOOLEAN : StakeReturns(ok)
    \/ \E outcome \in WaitOutcomes : StakeWaitReturns(outcome)
    \/ NextMovement
    \/ FinishRebalance

\* The state at the last call of a behaviour: the positions initializePositions
\* leaves, or none.
InitLive ==
    /\ positions \in { << >> } \cup PlanPositionInputs
    /\ currentStrategy = DefaultStrategy
    /\ pendingTransactions = << >>
    /\ pc = "idle"
    /\ newStrategy = DefaultStrategy
    /\ movements = << >>
    /\ transactions = << >>
    /\ idx = 0
    /\ settlement = << >>
    /\ inflight = {}
    /\ calls = MaxCalls - 1
    /\ gate = << >>
    /\ optimized = << >>
    /\ assessment = << >>
    /\ suspended = << >>
    /\ vaultETH = EmptyVault
    /\ stake = NotStaking

\* Every settlement call returns and the event loop runs the continuation.
SpecLive == InitLive /\ [][Next]_vars /\ WF_vars(Continue)

-----------------------------------------------------------------------------
(* C15 *)

\* C15: every executeRebalance call returns, and when it has returned every
\* transaction of the returned list is completed or failed.
C15_RebalanceTerminates ==
    /\ (~Idle) ~> (pc = "returned")
    /\ [](pc = "returned" =>
            \A k \in 1..Len(transactions) :
                Terminal(pendingTransactions[transactions[k]].status))

\* A call of two movements has returned, one of its waits having timed out
\* and one of its submissions having returned no reference.
C15_Witness ==
    /\ pc = "returned"
    /\ Len(transactions) = 2
    /\ \E c \in Calls : settlement[c].result = "timeout"
    /\ \E c \in Calls : settlement[c].result = "none"

-----------------------------------------------------------------------------
(* The whole cycle: optimize, decide, plan and execute *)

\* Snapshots handed to optimizeAllocation between rebalances.
CycleMarketDataInputs ==
    { MarketData(45, << >>, << >>),
      MarketData(45, << Entry("lido", 20) >>, << >>),
      MarketData(45, << Entry("etherfi", 20), Entry("lido", 20) >>,
                 [ p \in { "lido" } |-> 10 ]) }

NextCycle ==
    \/ Next
    \/ \E marketData \in CycleMarketDataInputs : OptimizeAllocation(marketData)
    \/ \E marketData \in CycleMarketDataInputs : OptimizeAllocationByAPR(marketData)
    \/ \E strategy \in StrategyInputs, gasPrice \in GasPriceInputs :
         ShouldRebalance(strategy, gasPrice)

SpecCycle == Init /\ [][NextCycle]_vars

-----------------------------------------------------------------------------
(* C16 *)

\* A movement ends failed in this step.
FailsNow(id) ==
    pendingTransactions[id].status # "failed" /\ pendingTransactions'[id].status = "failed"

\* C16: a step that changes a position is a step of initializePositions or
\* the step that confirms a deposit; a step of optimizeAllocation or of
\* shouldRebalance leaves the positions and the active strategy unchanged;
\* the planning step and every step in which a movement ends failed leave the
\* positions unchanged.
C16_PositionsWrittenByInitAndCompletion ==
    [][ /\ positions' # positions =>
             \/ \E data \in ProtocolDataInputs : InitializePositions(data)
             \/ \E id \in TxIds : DepositConfirmedNow(id)
        /\ (optimized' # optimized \/ gate' # gate) =>
             (positions' = positions /\ currentStrategy' = currentStrategy)
        /\ (\E strategy \in StrategyInputs : ExecuteRebalance(strategy)) =>
             positions' = positions
        /\ \A id \in TxIds : FailsNow(id) => positions' = positions
      ]_vars

\* A movement has failed at its deposit wait, its withdrawal having been
\* confirmed, and the positions hold the amounts initializePositions gave them.
C16_Witness ==
    \E id \in TxIds :
        /\ pendingTransactions[id].status = "failed"
        /\ \E c \in WaitsOn("executeUnstake", id) : settlement[c].result = "confirmed"
        /\ \E c \in WaitsOn("executeStake", id) : settlement[c].result = "reverted"
        /\ \A d \in TxIds : pendingTransactions[d].status # "completed"
        /\ \A p \in DOMAIN positions : positions[p].currentAmount \in AmountInputs

-----------------------------------------------------------------------------
(* C17 *)

\* C17: optimizeAllocation on a snapshot with zero protocols returns a
\* strategy with an empty allocation map and expected yield 0.
C17_EmptySnapshotGivesEmptyStrategy ==
    (/\ optimized # << >>
     /\ ~optimized[1].byAPR
     /\ optimized[1].marketData.protocolAPRs = << >>
     /\ DOMAIN optimized[1].marketData.protocolRisks = {})
        => /\ optimized[1].strategy.targetAllocations = << >>
           /\ optimized[1].strategy.expectedAPR = 0

\* optimizeAllocation has returned for a snapshot with zero protocols; the
\* risk score of the strategy is 0 / 0.
C17_Witness ==
    /\ optimized # << >>
    /\ ~optimized[1].byAPR
    /\ optimized[1].marketData.protocolAPRs = << >>
    /\ DOMAIN optimized[1].marketData.protocolRisks = {}
    /\ IsNaN(optimized[1].strategy.riskScore)

-----------------------------------------------------------------------------
(* C18 *)

\* The snapshot with risk 1 entered for every protocol that has a yield and
\* no risk.
WithDefaultRisks(marketData) ==
    LET risks == marketData.protocolRisks
        withYield == { marketData.protocolAPRs[i][1] :
                         i \in 1..Len(marketData.protocolAPRs) }
    IN  [ marketData EXCEPT !.protocolRisks =
            [ p \in DOMAIN risks \cup withYield |->
                IF p \in DOMAIN risks THEN risks[p] ELSE 1 ] ]

\* C18, for the protocols that have a yield and no risk: the allocations and
\* the expected yield of the strategy returned are those computed with risk 1
\* in the place of each missing risk.
C18_MissingRiskIsOne ==
    (optimized # << >> /\ ~optimized[1].byAPR) =>
        LET defaulted == optimizeAllocation(currentStrategy,
                                            WithDefaultRisks(optimized[1].marketData))
        IN  /\ optimized[1].strategy.targetAllocations = defaulted.targetAllocations
            /\ optimized[1].strategy.expectedAPR = defaulted.expectedAPR

-----------------------------------------------------------------------------
(* Risk Analyzer (src/unnamed/part_003)                                    *)
(*                                                                         *)
(* Every score is a quotient held as Ratio(num, den), den 0 standing for   *)
(* NaN.  A protocol's riskScore is held in tenths, its withdrawalDelay in  *)
(* hours, its gasEfficiency and maxAllocation in percent, its totalStaked  *)
(* as an integer.                                                          *)

RECURSIVE GCD(_, _)
GCD(a, b) == IF b = 0 THEN a ELSE GCD(b, a % b)

\* The quotient in lowest terms, the denominator positive; NaN stays NaN.
Normalize(r) ==
    IF r.den = 0 THEN Ratio(0, 0)
    ELSE LET g == GCD(Abs(r.num), Abs(r.den))
             sign == IF r.den < 0 THEN -1 ELSE 1
         IN  Ratio(sign * (r.num \div g), sign * (r.den \div g))

\* a + b
RatAdd(a, b) ==
    IF a.den = 0 \/ b.den = 0 THEN Ratio(0, 0)
    ELSE LET l == (a.den \div GCD(a.den, b.den)) * b.den
         IN  Normalize(Ratio(a.num * (l \div a.den) + b.num * (l \div b.den), l))

\* a * (num / den)
RatTimes(a, num, den) == Normalize(Ratio(a.num * num, a.den * den))

\* a > k and a < k for a whole k; both are false for NaN.
RatGreater(a, k) == a.den # 0 /\ a.num > k * a.den

RatLess(a, k) == a.den # 0 /\ a.num < k * a.den

\* Math.min(a, k)
RatMin(a, k) == IF a.den = 0 THEN a ELSE IF RatGreater(a, k) THEN Ratio(k, 1) ELSE a

StakingProtocol(name, riskScore, gasEfficiency, withdrawalDelay, maxAlloc, totalStaked) ==
    [ name |-> name, riskScore |-> riskScore, gasEfficiency |-> gasEfficiency,
      withdrawalDelay |-> withdrawalDelay, maxAllocation |-> maxAlloc,
      totalStaked |-> totalStaked ]

\* riskScore + withdrawalDelay * 0.1 + (100 - gasEfficiency) * 0.02, capped at 10.
calculateProtocolRisk(protocol) ==
    RatMin(Normalize(Ratio(protocol.riskScore * 10 + protocol.withdrawalDelay * 10
                             + (100 - protocol.gasEfficiency) * 2, 100)), 10)

\* protocols.reduce((sum, p) => sum + Number(p.totalStaked), 0)
TotalStaked(protocols) ==
    SumSeq([ i \in 1..Len(protocols) |-> protocols[i].totalStaked ])

calculateConcentrationRisk(protocols) ==
    LET totalTVL == TotalStaked(protocols)
    IN  IF totalTVL = 0 THEN Ratio(0, 1)
        ELSE Normalize(Ratio(10 * SumSeq([ i \in 1..Len(protocols) |->
                                             protocols[i].totalStaked
                                               * protocols[i].totalStaked ]),
                             totalTVL * totalTVL))

calculateLiquidityRisk(protocols) ==
    LET totalStaked == TotalStaked(protocols)
    IN  IF totalStaked = 0 THEN Ratio(0, 1)
        ELSE RatMin(Normalize(Ratio(SumSeq([ i \in 1..Len(protocols) |->
                                               protocols[i].withdrawalDelay
                                                 * protocols[i].totalStaked ]),
                                    3 * totalStaked)), 10)

\* The contractRisk of lines 125-132, in tenths.
contractRisk(name) ==
    IF name = "lido" THEN 10
    ELSE IF name = "rocketpool" THEN 15
    ELSE IF name = "etherfi" THEN 25
    ELSE IF name = "morpho" THEN 30
    ELSE 20

calculateSmartContractRisk(protocols) ==
    LET totalStaked == TotalStaked(protocols)
    IN  IF totalStaked = 0 THEN Ratio(0, 1)
        ELSE Normalize(Ratio(SumSeq([ i \in 1..Len(protocols) |->
                                        contractRisk(protocols[i].name)
                                          * protocols[i].totalStaked ]),
                             10 * totalStaked))

\* calculateOverallRisk of the Risk Analyzer: the weights 0.4, 0.2, 0.2, 0.2.
calculateOverallPortfolioRisk(averageRisk, concentrationRisk, liquidityRisk, smartContractRisk) ==
    RatAdd(RatAdd(RatAdd(RatTimes(averageRisk, 4, 10),
                         RatTimes(concentrationRisk, 2, 10)),
                  RatTimes(liquidityRisk, 2, 10)),
           RatTimes(smartContractRisk, 2, 10))

\* The recommendations, each as the tuple of its kind and its subject.
generateRecommendations(overallRisk, concentrationRisk, liquidityRisk, smartContractRisk, protocols) ==
    LET totalStaked == TotalStaked(protocols)
        highRisk == SelectSeq(protocols, LAMBDA p : RatGreater(calculateProtocolRisk(p), 7))
        overCap == SelectSeq(protocols,
                             LAMBDA p : totalStaked > 0
                                        /\ p.totalStaked * 100 > p.maxAllocation * totalStaked)
    IN  (IF RatGreater(overallRisk, 7) THEN << << "overall", "high" >> >>
         ELSE IF RatGreater(overallRisk, 5) THEN << << "overall", "moderate" >> >>
         ELSE IF RatLess(overallRisk, 2) THEN << << "overall", "low" >> >>
         ELSE << >>)
        \o (IF RatGreater(concentrationRisk, 6) THEN << << "concentration", "high" >> >> ELSE << >>)
        \o (IF RatGreater(liquidityRisk, 5) THEN << << "liquidity", "high" >> >> ELSE << >>)
        \o (IF RatGreater(smartContractRisk, 6) THEN << << "smartContract", "high" >> >> ELSE << >>)
        \o [ i \in 1..Len(highRisk) |-> << "protocol", highRisk[i].name >> ]
        \o [ i \in 1..Len(overCap) |-> << "allocation", overCap[i].name >> ]

RiskAssessment(overallRisk, protocolRisks, concentrationRisk, liquidityRisk, smartContractRisk, recommendations) ==
    [ overallRisk |-> overallRisk, protocolRisks |-> protocolRisks,
      concentrationRisk |-> concentrationRisk, liquidityRisk |-> liquidityRisk,
      smartContractRisk |-> smartContractRisk, recommendations |-> recommendations ]

\* protocolRisks is the sequence of the map's entries.
assessPortfolioRisk(protocols) ==
    LET protocolRisks == [ i \in 1..Len(protocols) |->
                             Entry(protocols[i].name, calculateProtocolRisk(protocols[i])) ]
        totalRisk == IF protocols = << >> THEN Ratio(0, 1)
                     ELSE LET RECURSIVE Total(_)
                              Total(k) == IF k = 0 THEN Ratio(0, 1)
                                          ELSE RatAdd(Total(k - 1), protocolRisks[k][2])
                          IN  Total(Len(protocols))
        averageRisk == RatTimes(totalRisk, 1, Len(protocols))
        concentrationRisk == calculateConcentrationRisk(protocols)
        liquidityRisk == calculateLiquidityRisk(protocols)
        smartContractRisk == calculateSmartContractRisk(protocols)
        overallRisk == calculateOverallPortfolioRisk(averageRisk, concentrationRisk,
                                                     liquidityRisk, smartContractRisk)
    IN  RiskAssessment(overallRisk, protocolRisks, concentrationRisk, liquidityRisk,
                       smartContractRisk,
                       generateRecommendations(overallRisk, concentrationRisk,
                                               liquidityRisk, smartContractRisk, protocols))

\* The keys of the mock protocolRisks of assessRisk, in insertion order.
MockProtocols == << "lido", "rocketpool", "etherfi", "morpho" >>

\* The mock protocolRisks of assessRisk, in thousandths: protocolRisks.get(protocol) || 0.01
MockProtocolRisk(protocol) ==
    IF protocol = "lido" THEN 10
    ELSE IF protocol = "rocketpool" THEN 20
    ELSE IF protocol = "etherfi" THEN 15
    ELSE IF protocol = "morpho" THEN 5
    ELSE 10

\* assessRisk(allocations); the allocations are in thousandths of a percent.
assessRisk(allocations) ==
    LET weightedRisk == SumSeq([ i \in 1..Len(allocations) |->
                                   allocations[i][2] * MockProtocolRisk(allocations[i][1]) ])
        totalWeight == AllocationSum(allocations)
        overallRisk == IF totalWeight > 0
                       THEN Normalize(Ratio(weightedRisk, 1000 * totalWeight))
                       ELSE Ratio(1, 1)
        \* Math.max() of no value is -Infinity
        largest == IF allocations = << >> THEN -1
                   ELSE CHOOSE a \in { allocations[i][2] : i \in 1..Len(allocations) } :
                          \A i \in 1..Len(allocations) : allocations[i][2] <= a
        concentrationRisk == IF largest > 50000
                             THEN Normalize(Ratio(largest - 50000, 10000))
                             ELSE Ratio(0, 1)
    IN  RiskAssessment(RatAdd(overallRisk, concentrationRisk),
                       [ i \in 1..Len(MockProtocols) |->
                           Entry(MockProtocols[i],
                                 Normalize(Ratio(MockProtocolRisk(MockProtocols[i]), 1000))) ],
                       concentrationRisk, Ratio(1, 2), Ratio(1, 1),
                       << << "mock", "diversification" >>, << "mock", "monitor" >>,
                          << "mock", "exposure" >> >>)


-----------------------------------------------------------------------------
(* Specification of the Risk Analyzer: one assessment from the initial     *)
(* state, of a protocol list or of a target-allocation map.                *)

\* DataService.getAvailableProtocols: riskScore in tenths, nothing staked.
getAvailableProtocols ==
    << StakingProtocol("lido", 10, 85, 1, 40, 0),
       StakingProtocol("etherfi", 20, 80, 7, 30, 0),
       StakingProtocol("rocketpool", 15, 75, 1, 35, 0),
       StakingProtocol("morpho", 30, 70, 0, 25, 0) >>

\* The same protocols at the far end of the data model: risk score 10, a week
\* of withdrawal delay, efficiency 0.
StressedProtocols ==
    [ i \in 1..Len(getAvailableProtocols) |->
        [ getAvailableProtocols[i] EXCEPT !.riskScore = 100, !.withdrawalDelay = 168,
                                          !.gasEfficiency = 0 ] ]

StakedInputs == {0, 1, 3}

\* The listed protocols of base, in order, with their live totals.
ListOf(base, listed, staked) ==
    LET order == SelectSeq([ i \in 1..Len(base) |-> i ], LAMBDA i : i \in listed)
    IN  [ k \in 1..Len(order) |-> [ base[order[k]] EXCEPT !.totalStaked = staked[order[k]] ] ]

ProtocolListInputs ==
    UNION { UNION { { ListOf(base, listed, staked) : staked \in [listed -> StakedInputs] } :
                    listed \in SUBSET (1..Len(base)) } :
            base \in { getAvailableProtocols, StressedProtocols } }

AssessPortfolioRisk(protocols) ==
    /\ assessment = << >>
    /\ assessment' = << [ protocols |-> protocols, returned |-> assessPortfolioRisk(protocols) ] >>
    /\ UNCHANGED << positions, currentStrategy, pendingTransactions, pc, newStrategy,
                    movements, transactions, idx, settlement, inflight, calls, gate,
                    optimized, suspended, vaultETH, stake >>

AssessRisk(allocations) ==
    /\ assessment = << >>
    /\ assessment' = << [ allocations |-> allocations, returned |-> assessRisk(allocations) ] >>
    /\ UNCHANGED << positions, currentStrategy, pendingTransactions, pc, newStrategy,
                    movements, transactions, idx, settlement, inflight, calls, gate,
                    optimized, suspended, vaultETH, stake >>

NextRisk ==
    \/ /\ assessment = << >>
       /\ \E protocols \in ProtocolListInputs : AssessPortfolioRisk(protocols)
    \/ /\ assessment = << >>
       /\ \E allocations \in PlanAllocationInputs : AssessRisk(allocations)

SpecRisk == Init /\ [][NextRisk]_vars

\* A score is a number of [0, 10].
ScoreWithinTen(score) == score.den > 0 /\ score.num >= 0 /\ score.num <= 10 * score.den

ScoresWithinTen(a) ==
    /\ ScoreWithinTen(a.overallRisk)
    /\ \A i \in 1..Len(a.protocolRisks) : ScoreWithinTen(a.protocolRisks[i][2])
    /\ ScoreWithinTen(a.concentrationRisk)
    /\ ScoreWithinTen(a.liquidityRisk)
    /\ ScoreWithinTen(a.smartContractRisk)

\* C19: every score of every RiskAssessment the Risk Analyzer returns (overall,
\* each per-protocol risk, concentration, liquidity, smart-contract) lies in
\* [0, 10], for every protocol list, the empty one included, and for every
\* allocation map.
C19_ScoresWithinTen == assessment # << >> => ScoresWithinTen(assessment[1].returned)


-----------------------------------------------------------------------------
(* Overlapping executeRebalance calls                                      *)
(*                                                                         *)
(* executeRebalance is an async function: at each await the call is        *)
(* suspended and the event loop runs whatever is ready, a second           *)
(* executeRebalance call of the caller included.  Nothing in the class     *)
(* keeps a second call from starting.  The variables pc, newStrategy,      *)
(* movements, transactions and idx are the locals of the call that runs;   *)
(* suspended holds the locals of the other one.                            *)

\* Where a call stands while one of its awaits is outstanding.
AwaitPcs == { "gas", "unstake", "waitUnstake", "stake", "waitStake" }

\* Number of times the event loop goes from one call to the other.
MaxSwitches == 2

\* The locals of a call, the settlement call it awaits (0 for none), and the
\* number of times the event loop has gone from one call to the other.
Frame(at, strategy, plan, txs, i, awaiting, switches) ==
    [ pc |-> at, newStrategy |-> strategy, movements |-> plan,
      transactions |-> txs, idx |-> i, awaiting |-> awaiting, switches |-> switches ]

\* A call the caller has not made yet.
NotCalled == Frame("idle", DefaultStrategy, << >>, << >>, 0, 0, 0)

\* The call that runs is suspended at its await, or has returned, and the
\* other call runs: the one suspended before, or a new one if the caller has
\* made one call only.
Switch ==
    LET other == IF suspended = << >> THEN NotCalled ELSE suspended[1]
    IN  /\ other.switches < MaxSwitches
        /\ pc \in AwaitPcs \cup { "returned" }
        /\ pc \in AwaitPcs \/ other.pc \in AwaitPcs
        /\ suspended = << >> => calls < MaxCalls
        /\ suspended' = << Frame(pc, newStrategy, movements, transactions, idx,
                                 IF pc \in AwaitPcs THEN Outstanding ELSE 0,
                                 other.switches + 1) >>
        /\ pc' = other.pc
        /\ newStrategy' = other.newStrategy
        /\ movements' = other.movements
        /\ transactions' = other.transactions
        /\ idx' = other.idx
        /\ UNCHANGED << positions, currentStrategy, pendingTransactions, settlement,
                        inflight, calls, gate, optimized, assessment, vaultETH, stake >>

\* Strategies of the overlapping calls: one source and one destination, and
\* one source and two destinations.
OverlapStrategyInputs ==
    { s \in StrategyInputs :
        /\ s.riskTolerance = "moderate"
        /\ s.targetAllocations \in
             { << Entry("lido", 40000), Entry("rocketpool", 60000) >>,
               << Entry("lido", 0), Entry("rocketpool", 40000), Entry("etherfi", 60000) >> } }

\* The positions initializePositions leaves when the chain reports 70 staked
\* with lido, nothing with etherfi and nothing or 30 with rocketpool.
OverlapPositionInputs ==
    { initializePositions(<< >>, d) :
        d \in { e \in ProtocolDataInputs :
                  e["lido"] = << 70 >> /\ e["etherfi"] = << 0 >> } }

\* The positions initializePositions has left, two calls being left to make.
InitOverlap ==
    /\ positions \in OverlapPositionInputs
    /\ currentStrategy = DefaultStrategy
    /\ pendingTransactions = << >>
    /\ pc = "idle"
    /\ newStrategy = DefaultStrategy
    /\ movements = << >>
    /\ transactions = << >>
    /\ idx = 0
    /\ settlement = << >>
    /\ inflight = {}
    /\ calls = MaxCalls - 2
    /\ gate = << >>
    /\ optimized = << >>
    /\ assessment = << >>
    /\ suspended = << >>
    /\ vaultETH = EmptyVault
    /\ stake = NotStaking

NextOverlap ==
    \/ \E strategy \in OverlapStrategyInputs : ExecuteRebalance(strategy)
    \/ Continue
    \/ Switch

SpecOverlap == InitOverlap /\ [][NextOverlap]_vars

\* C20: no position's currentAmount becomes negative, even when a second
\* executeRebalance call plans and executes while the first is suspended at
\* an await, each call having planned from the amounts it saw at its start.
C20_NoNegativeAmount ==
    \A p \in DOMAIN positions : positions[p].currentAmount >= 0

-----------------------------------------------------------------------------
(* C21 *)

\* C21: the sum of currentAmount over all positions is left unchanged by every
\* step of executeRebalance: by the planning, by every movement whatever its
\* outcome, and by the return.  Only initializePositions changes it.
C21_TotalValueConserved ==
    [][ \/ \E data \in ProtocolDataInputs : InitializePositions(data)
        \/ getTotalPortfolioValue(positions') = getTotalPortfolioValue(positions)
      ]_vars

\* A call has returned whose first movement failed and whose second completed.
C21_Witness ==
    /\ pc = "returned"
    /\ Len(transactions) = 2
    /\ pendingTransactions[transactions[1]].status = "failed"
    /\ pendingTransactions[transactions[2]].status = "completed"
    /\ getTotalPortfolioValue(positions) > 0

-----------------------------------------------------------------------------
(* C22 *)

\* What the movements of a plan take out of a protocol, in all.
MovedOut(plan, protocol) ==
    SumSeq([ k \in 1..Len(plan) |->
               IF plan[k].from = protocol THEN plan[k].amount ELSE 0 ])

\* C22: when the calls are serialized and no target percentage is negative,
\* no position's currentAmount is ever negative, and a plan, when it has just
\* been made, takes out of no protocol more than the protocol holds.
C22_SerializedAmountsNonNegative ==
    /\ \A p \in DOMAIN positions : positions[p].currentAmount >= 0
    /\ (pc = "gas" /\ idx = 1) =>
         \A p \in DOMAIN positions :
             MovedOut(movements, p) <= positions[p].currentAmount

\* A call has returned that moved out of lido all it held, in two movements.
C22_Witness ==
    /\ pc = "returned"
    /\ Len(movements) = 2
    /\ "lido" \in DOMAIN positions
    /\ positions["lido"].currentAmount = 0
    /\ MovedOut(movements, "lido") = 70
    /\ \A k \in 1..Len(transactions) :
           pendingTransactions[transactions[k]].status = "completed"

-----------------------------------------------------------------------------
(* C23 *)

\* n / d rounded to the nearest integer, halves up (n >= 0, d > 0).
RoundedQuotient(n, d) == (2 * n + d) \div (2 * d)

\* C23: for each protocol of the strategy that has a position, the planner's
\* targetAmount is totalValue * targetBasisPoints / 10000 rounded to the
\* nearest integer unit.
C23_TargetAmountRoundedToNearest ==
    LET totalValue == getTotalPortfolioValue(positions)
        alloc == newStrategy.targetAllocations
    IN  pc = "planned" =>
        \A i \in 1..Len(alloc) :
            alloc[i][1] \in DOMAIN positions =>
                targetAmountOf(totalValue, alloc[i][2])
                    = RoundedQuotient(totalValue * RoundToBasisPoints(alloc[i][2]), 10000)

-----------------------------------------------------------------------------
(* C24 *)

\* C24: in every plan each movement has a source other than its destination
\* and no protocol is the source of one movement and the destination of
\* another; a protocol of the strategy is in the surpluses, in the deficits or
\* in neither (its difference being 0), never in both.
C24_SourcesAndDestinationsDisjoint ==
    pc = "planned" =>
        LET totalValue == getTotalPortfolioValue(positions)
            alloc == newStrategy.targetAllocations
            surpluses == AllocationProtocols(Classify(alloc, positions, totalValue, TRUE))
            deficits == AllocationProtocols(Classify(alloc, positions, totalValue, FALSE))
        IN  /\ surpluses \cap deficits = {}
            /\ \A i \in 1..Len(alloc) :
                   (/\ alloc[i][1] \in DOMAIN positions
                    /\ targetAmountOf(totalValue, alloc[i][2])
                         = positions[alloc[i][1]].currentAmount)
                   => alloc[i][1] \notin surpluses \cup deficits
            /\ \A k, l \in 1..Len(movements) : movements[k].from # movements[l].to
            /\ \A k \in 1..Len(movements) :
                   movements[k].from \in surpluses /\ movements[k].to \in deficits

\* A plan of two movements out of two sources into one destination.
C24_Witness ==
    /\ pc = "planned"
    /\ Len(movements) = 2
    /\ movements[1].from # movements[2].from
    /\ movements[1].to = movements[2].to

-----------------------------------------------------------------------------
(* C25 *)

\* C25: the source and the destination of every movement of a plan are
\* protocols of the strategy that have a position: a protocol with a position
\* and no entry in the allocation map is left where it is, and an entry for a
\* protocol without a position generates no movement.
C25_OnlyStrategyProtocolsWithPositionMove ==
    pc = "planned" =>
        \A k \in 1..Len(movements) :
            { movements[k].from, movements[k].to }
                \subseteq AllocationProtocols(newStrategy.targetAllocations)
                            \cap DOMAIN positions

\* A plan with a movement, while a protocol holding funds has no entry in the
\* strategy and an entry with a positive target has no position.
C25_Witness ==
    /\ pc = "planned"
    /\ movements # << >>
    /\ \E p \in DOMAIN positions \ AllocationProtocols(newStrategy.targetAllocations) :
           positions[p].currentAmount > 0
    /\ \E i \in 1..Len(newStrategy.targetAllocations) :
           /\ newStrategy.targetAllocations[i][1] \notin DOMAIN positions
           /\ newStrategy.targetAllocations[i][2] > 0

-----------------------------------------------------------------------------
(* C26 *)

\* Every movement of the call that has returned completed.
AllCompleted ==
    /\ Len(transactions) = Len(movements)
    /\ \A k \in 1..Len(transactions) :
           pendingTransactions[transactions[k]].status = "completed"

\* C26: when executeRebalance has returned with every movement completed,
\* planning again for the same strategy on the positions as they are yields
\* no movement.
C26_ReplanningAfterCompletionIsEmpty ==
    (pc = "returned" /\ AllCompleted) =>
        calculateRequiredMovements(newStrategy, positions,
                                   getTotalPortfolioValue(positions)) = << >>

\* A call of two completed movements into two destinations has returned.
C26_Witness ==
    /\ pc = "returned"
    /\ Len(movements) = 2
    /\ AllCompleted
    /\ movements[1].to # movements[2].to

-----------------------------------------------------------------------------
(* C27 *)

\* The sum of currentPercentage over all positions, in hundredths of a percent.
TotalPercentage(pos) ==
    SumOver([ p \in DOMAIN pos |-> pos[p].currentPercentage ], DOMAIN pos)

\* C27: whenever the total portfolio value is > 0, each position's
\* currentPercentage is its currentAmount over the total, in whole hundredths
\* of a percent, and the percentages of the N positions sum to 100 within
\* N * 0.01.
C27_PercentagesFollowAmounts ==
    LET totalValue == getTotalPortfolioValue(positions)
        N == Cardinality(DOMAIN positions)
    IN  totalValue > 0 =>
            /\ \A p \in DOMAIN positions :
                   /\ positions[p].currentPercentage * totalValue
                        <= positions[p].currentAmount * 10000
                   /\ positions[p].currentAmount * 10000
                        < (positions[p].currentPercentage + 1) * totalValue
            /\ Abs(10000 - TotalPercentage(positions)) <= N

\* A movement has completed and the percentages, each cut to a hundredth of a
\* percent, sum to less than 100.
C27_Witness ==
    /\ \E id \in TxIds : pendingTransactions[id].status = "completed"
    /\ getTotalPortfolioValue(positions) > 0
    /\ TotalPercentage(positions) < 10000

-----------------------------------------------------------------------------
(* BlockchainService.executeStake (src/unnamed/part_004)                   *)
(*                                                                         *)
(* The vault contract is configured; a router is named by its protocol.    *)

\* Amounts handed to executeStake.
StakeAmountInputs == {30, 70}

\* A deposit locked in the vault: the protocol executeStake was called for
\* and the router that was current when lockCollateral was mined.
Deposit(protocolName, router, amount) ==
    [ protocol |-> protocolName, router |-> router, amount |-> amount ]

\* setStakingRouter: the vault after updateCurrentStakingRouter and tx.wait()
\* went through (ok), or as it was when one of them threw.
setStakingRouter(vault, routerAddress, ok) ==
    IF ok THEN [ vault EXCEPT !.currentStakingRouter = routerAddress ] ELSE vault

InitStake ==
    /\ positions = << >>
    /\ currentStrategy = DefaultStrategy
    /\ pendingTransactions = << >>
    /\ pc = "idle"
    /\ newStrategy = DefaultStrategy
    /\ movements = << >>
    /\ transactions = << >>
    /\ idx = 0
    /\ settlement = << >>
    /\ inflight = {}
    /\ calls = MaxCalls - 2
    /\ gate = << >>
    /\ optimized = << >>
    /\ assessment = << >>
    /\ suspended = << >>
    /\ vaultETH \in { Vault(router, << >>) : router \in RouterContracts \cup { "" } }
    /\ stake = NotStaking

\* executeStake up to its first await: null when the protocol has no router
\* contract.
ExecuteStake(protocolName, amount) ==
    /\ stake.pc \in { "idle", "returned" }
    /\ calls < MaxCalls
    /\ calls' = calls + 1
    /\ stake' = IF protocolName \in RouterContracts
                THEN StakeCall("setStakingRouter", protocolName, amount, NoHash)
                ELSE StakeCall("returned", protocolName, amount, NoHash)
    /\ UNCHANGED << positions, currentStrategy, pendingTransactions, pc, newStrategy,
                    movements, transactions, idx, settlement, inflight, gate,
                    optimized, assessment, suspended, vaultETH >>

\* setStakingRouter returns true (ok) or false; executeStake does not read
\* what it returns and goes on to lockCollateral.
SetStakingRouterReturns(ok) ==
    /\ stake.pc = "setStakingRouter"
    /\ vaultETH' = setStakingRouter(vaultETH, stake.protocolName, ok)
    /\ stake' = [ stake EXCEPT !.pc = "lockCollateral" ]
    /\ UNCHANGED << positions, currentStrategy, pendingTransactions, pc, newStrategy,
                    movements, transactions, idx, settlement, inflight, calls, gate,
                    optimized, assessment, suspended >>

\* lockCollateral and tx.wait() go through (ok): the deposit is locked through
\* the router that is current and its hash is returned; or one of them throws
\* and executeStake returns null.
LockCollateralReturns(ok) ==
    /\ stake.pc = "lockCollateral"
    /\ IF ok
       THEN /\ vaultETH' = [ vaultETH EXCEPT !.deposits =
                               Append(@, Deposit(stake.protocolName,
                                                 vaultETH.currentStakingRouter,
                                                 stake.amount)) ]
            /\ stake' = [ stake EXCEPT !.pc = "returned",
                                       !.returned = Len(vaultETH.deposits) + 1 ]
       ELSE /\ UNCHANGED vaultETH
            /\ stake' = [ stake EXCEPT !.pc = "returned", !.returned = NoHash ]
    /\ UNCHANGED << positions, currentStrategy, pendingTransactions, pc, newStrategy,
                    movements, transactions, idx, settlement, inflight, calls, gate,
                    optimized, assessment, suspended >>

NextStake ==
    \/ \E protocolName \in ProtocolNames, amount \in StakeAmountInputs :
           ExecuteStake(protocolName, amount)
    \/ \E ok \in BOOLEAN : SetStakingRouterReturns(ok)
    \/ \E ok \in BOOLEAN : LockCollateralReturns(ok)

SpecStake == InitStake /\ [][NextStake]_vars

\* C28: every deposit executeStake locks goes through the router of the
\* protocol it was called for: when the switch to that router fails, no
\* deposit is made and no reference is returned.
C28_DepositThroughOwnRouter ==
    \A i \in DOMAIN vaultETH.deposits :
        vaultETH.deposits[i].router = vaultETH.deposits[i].protocol

-----------------------------------------------------------------------------
(* C29 *)

\* The deposit submissions made for a transaction that returned a reference.
DepositReferences(id) ==
    { c \in CallsFor("executeStake", id) : settlement[c].result = "hash" }

\* C29: a transaction has a txHash exactly when its deposit submission
\* returned a reference, and the txHash is that reference, never the
\* withdrawal's: every completed transaction has one, and a transaction that
\* failed without a deposit reference has none.
C29_TxHashIsDepositReference ==
    \A id \in TxIds :
        LET tx == pendingTransactions[id]
        IN  /\ (tx.txHash # NoHash) <=> (DepositReferences(id) # {})
            /\ tx.txHash # NoHash => tx.txHash \in DepositReferences(id)
            /\ tx.status = "completed" => tx.txHash # NoHash
            /\ (tx.status = "failed" /\ DepositReferences(id) = {}) => tx.txHash = NoHash

\* One call has left a transaction that failed at the wait for its deposit,
\* which has the deposit's reference, and one that failed at the wait for its
\* withdrawal, which has none.
C29_Witness ==
    /\ \E id \in TxIds : /\ pendingTransactions[id].status = "failed"
                         /\ pendingTransactions[id].txHash \in DepositReferences(id)
    /\ \E id \in TxIds : /\ pendingTransactions[id].status = "failed"
                         /\ pendingTransactions[id].txHash = NoHash
                         /\ \E c \in WaitsOn("executeUnstake", id) :
                                settlement[c].result = "timeout"

-----------------------------------------------------------------------------
(* optimizeAllocation at the bounds of the gas threshold                   *)

\* Gas prices of the snapshot (gwei): at, just under and just over half the
\* base threshold and one and a half times it.
ThresholdGasPrices == { 0, 24, 25, 26, 74, 75, 76, 100 }

ThresholdMarketDataInputs ==
    { MarketData(g, m.protocolAPRs, m.protocolRisks) :
        g \in ThresholdGasPrices, m \in CycleMarketDataInputs }

NextThreshold ==
    \/ \E marketData \in ThresholdMarketDataInputs : OptimizeAllocation(marketData)
    \/ \E marketData \in ThresholdMarketDataInputs : OptimizeAllocationByAPR(marketData)

SpecThreshold == InitOptimize /\ [][NextThreshold]_vars

\* The strategy optimizeAllocation of src/src/services/yield-optimizer.ts
\* has returned.
Optimized == optimized # << >> /\ ~optimized[1].byAPR

\* C30: the strategy optimizeAllocation returns has for maxGasPrice 1.2 times
\* the base threshold when the snapshot's gas price is under half the base,
\* 0.8 times the base when it is over one and a half times the base, and the
\* base otherwise, at exactly half and one and a half times the base included;
\* the base is the default 50.
C30_GasThresholdAdjusted ==
    Optimized =>
        LET base == DefaultStrategy.maxGasPrice
            gasPrice == optimized[1].marketData.gasPrice
            maxGasPrice == optimized[1].strategy.maxGasPrice
        IN  IF 2 * gasPrice < base THEN 10 * maxGasPrice = 12 * base
            ELSE IF 2 * gasPrice > 3 * base THEN 10 * maxGasPrice = 8 * base
            ELSE maxGasPrice = base

\* The snapshot's gas price was exactly half the base and the threshold is
\* the base.
C30_Witness ==
    /\ Optimized
    /\ 2 * optimized[1].marketData.gasPrice = DefaultStrategy.maxGasPrice
    /\ optimized[1].strategy.maxGasPrice = DefaultStrategy.maxGasPrice

====
